---- MODULE Spec2Model ----
(***************************************************************************)
(* Model of the dynamic propulsion-architecture builder of openconcept:    *)
(* architecting/builder (arch_group.py, elements/thrust.py,                *)
(* elements/mech.py, elements/electric.py, utils.py).                      *)
(*                                                                         *)
(* The state is the OpenMDAO group being assembled by                      *)
(* DynamicPropulsionArchitecture.setup: its subsystems, its connections,   *)
(* its balance equations, the builder's bookkeeping lists and the point    *)
(* the single assembly pass has reached.  Values flowing through the       *)
(* assembled graph are exact rationals <<numerator, denominator>>.         *)
(***************************************************************************)
EXTENDS Integers, Sequences, FiniteSets, TLC

(***************************************************************************)
(* Bounds of the model.                                                    *)
(***************************************************************************)
MaxLanes == 2
NumNodes == 2

(***************************************************************************)
(* Exact rational arithmetic.                                              *)
(***************************************************************************)
Abs(x) == IF x < 0 THEN -x ELSE x

RECURSIVE Gcd(_, _)
Gcd(a, b) == IF b = 0 THEN a ELSE Gcd(b, a % b)

Rat(n, d) ==
    LET g == Gcd(Abs(n), Abs(d))
        s == IF d < 0 THEN -1 ELSE 1
    IN  IF n = 0 THEN <<0, 1>> ELSE <<s * (n \div g), s * (d \div g)>>

Zero == <<0, 1>>
One == <<1, 1>>
Whole(n) == <<n, 1>>
RAdd(a, b) == Rat(a[1] * b[2] + b[1] * a[2], a[2] * b[2])
RSub(a, b) == Rat(a[1] * b[2] - b[1] * a[2], a[2] * b[2])
RMul(a, b) == Rat(a[1] * b[1], a[2] * b[2])
RDiv(a, b) == Rat(a[1] * b[2], a[2] * b[1])
RLeq(a, b) == a[1] * b[2] <= b[1] * a[2]

RECURSIVE RSum(_)
RSum(s) == IF s = <<>> THEN Zero ELSE RAdd(Head(s), RSum(Tail(s)))

(***************************************************************************)
(* Interface names (defs.py, thrust.py, mech.py, electric.py).             *)
(***************************************************************************)
DURATION_INPUT == "duration"
FLTCOND_RHO_INPUT == "fltcond|rho"
FLTCOND_TAS_INPUT == "fltcond|Utrue"
WEIGHT_OUTPUT == "subsystem_weight"
RPM_INPUT == "prop|rpm"
SHAFT_POWER_INPUT == "shaft_power"
THRUST_OUTPUT == "thrust"
THROTTLE_INPUT == "throttle"
ACTIVE_INPUT == "propulsor_active"
FUEL_FLOW_OUTPUT == "fuel_flow"
ELECTRIC_POWER_OUTPUT == "motors_elec_power"
SOC_OUTPUT == "SOC"
\* Named in architecture.py's __all__ and used by mech.py; their definition
\* (elements/thrust.py of the revision mech.py was written against) is not
\* among the sources.
SHAFT_SPEED_INPUT == "shaft_speed"
RATED_POWER_INPUT == "rated_power"

(***************************************************************************)
(* Element specs.  An absent optional element is None.                     *)
(***************************************************************************)
None == [nil |-> TRUE]
IsNone(x) == x = None

Propeller(rpm) == [nil |-> FALSE, cls |-> "Propeller", default_rpm |-> rpm,
                   diameter |-> <<2, 1>>, power_rating |-> <<3, 1>>]
Gearbox == [nil |-> FALSE, cls |-> "Gearbox"]
Engine(r) == [nil |-> FALSE, cls |-> "Engine", power_rating |-> r]
Motor(r) == [nil |-> FALSE, cls |-> "Motor", power_rating |-> r]
Inverter == [nil |-> FALSE, cls |-> "Inverter"]
MechBus == [nil |-> FALSE, cls |-> "MechBus"]
MechSplitter(doh) == [nil |-> FALSE, cls |-> "MechSplitter", mech_DoH |-> doh]
DCBus == [nil |-> FALSE, cls |-> "DCBus"]
ElecSplitter(doh) == [nil |-> FALSE, cls |-> "ElecSplitter", elec_DoH |-> doh]
Batteries == [nil |-> FALSE, cls |-> "Batteries"]
Generator == [nil |-> FALSE, cls |-> "Generator"]
Rectifier == [nil |-> FALSE, cls |-> "Rectifier"]
DCEngineChain(r) == [nil |-> FALSE, cls |-> "DCEngineChain",
                     engine |-> Engine(r), generator |-> Generator, rectifier |-> Rectifier]
ACEngineChain(r) == [nil |-> FALSE, cls |-> "ACEngineChain",
                     engine |-> Engine(r), generator |-> Generator]
\* A Python list of element specs.
List(s) == [nil |-> FALSE, cls |-> "list", items |-> s]
IsList(x) == ~IsNone(x) /\ x.cls = "list"

(***************************************************************************)
(* The graph under assembly.  A component is identified by the group that  *)
(* owns it (g, with the lane index i for the per-lane groups) and its      *)
(* subsystem name c.  A port is a component plus a variable name v; c = "" *)
(* addresses a variable promoted to the level of the group.  k is the      *)
(* index of a sum_input_<k> port.                                          *)
(***************************************************************************)
Comp(g, i, c) == [g |-> g, i |-> i, c |-> c]
P(g, i, c, v) == [g |-> g, i |-> i, c |-> c, v |-> v, k |-> 0]
SumInput(g, i, c, k) == [g |-> g, i |-> i, c |-> c, v |-> "sum_input", k |-> k]
CompOf(p) == Comp(p.g, p.i, p.c)

EmptyGraph == [subs |-> <<>>, conns |-> {}]

\* Group.add_subsystem: the entry records the component class, its options,
\* its input and output variables and which of them it promotes.
AddSubsystem(G, id, entry) == [G EXCEPT !.subs = (id :> entry) @@ G.subs]

\* Group.connect
Connect(G, src, dst) == [G EXCEPT !.conns = G.conns \cup {<<src, dst>>}]

RECURSIVE ConnectAll(_, _)
ConnectAll(G, pairs) ==
    IF pairs = <<>> THEN G
    ELSE ConnectAll(Connect(G, Head(pairs)[1], Head(pairs)[2]), Tail(pairs))

Entry(kind, ins, outs, pin, pout, opt) ==
    [kind |-> kind, ins |-> ins, outs |-> outs, pin |-> pin, pout |-> pout, opt |-> opt]

NoOpt == [none |-> TRUE]

\* inp[0] + '_pass' of collect_inputs
Pass(name) ==
    CASE name = "prop|rpm" -> "prop|rpm_pass"
      [] name = "throttle" -> "throttle_pass"
      [] name = "duration" -> "duration_pass"
      [] name = "propulsor_active" -> "propulsor_active_pass"
      [] name = "fltcond|rho" -> "fltcond|rho_pass"
      [] name = "fltcond|Utrue" -> "fltcond|Utrue_pass"
      [] name = "shaft_power" -> "shaft_power_pass"
      [] name = "diameter" -> "diameter_pass"
      [] name = "power" -> "power_pass"
      [] name = "eng_rating" -> "eng_rating_pass"
      [] name = "eng_output_rpm" -> "eng_output_rpm_pass"
      [] name = "motor_rating" -> "motor_rating_pass"
      [] name = "motor_output_rpm" -> "motor_output_rpm_pass"
      [] name = "mech_DoH" -> "mech_DoH_pass"
      [] name = "elec_DoH" -> "elec_DoH_pass"
      [] name = "rating" -> "rating_pass"
      [] name = "output_rpm" -> "output_rpm_pass"
      [] name = "weight" -> "weight_pass"

\* output + '_sum' of create_output_sum
SumName(output) ==
    CASE output = "fuel_flow" -> "fuel_flow_sum"
      [] output = "subsystem_weight" -> "subsystem_weight_sum"
      [] output = "motors_elec_power" -> "motors_elec_power_sum"
      [] output = "SOC" -> "SOC_sum"
      [] output = "propulsion_system_weight" -> "propulsion_system_weight_sum"
      [] output = "thrust" -> "thrust_sum"

Range(f) == {f[x] : x \in DOMAIN f}

\* utils.collect_inputs: one DVLabel that passes every input through to
\* <input>_pass, all of them promoted; vals gives the default of each input.
collect_inputs(G, g, i, name, vals) ==
    AddSubsystem(G, Comp(g, i, name),
        Entry("DVLabel", DOMAIN vals, {Pass(v) : v \in DOMAIN vals},
              DOMAIN vals, {Pass(v) : v \in DOMAIN vals}, [vals |-> vals]))

\* Variant: a single input is treated like the empty list.
SumEntry_SingleAsEmpty(output, len, n) ==
    IF len <= 1
    THEN Entry("IndepVarComp", {}, {output}, {}, {output}, [nin |-> 0, n |-> n])
    ELSE Entry("AddSubtractComp", {"sum_input"}, {output}, {}, {output}, [nin |-> len, n |-> n])

\* The component create_output_sum instantiates for a list of len inputs.
SumEntry(output, len, n) ==
    IF len = 0
    THEN Entry("IndepVarComp", {}, {output}, {}, {output}, [nin |-> 0, n |-> n])
    ELSE IF len = 1
    THEN Entry("ExecComp_pass", {"sum_input"}, {output}, {}, {output}, [nin |-> 1, n |-> n])
    ELSE Entry("AddSubtractComp", {"sum_input"}, {output}, {}, {output}, [nin |-> len, n |-> n])

\* utils.create_output_sum
create_output_sum(G, g, i, output, inputs, n) ==
    LET sub_name == SumName(output)
        G1 == AddSubsystem(G, Comp(g, i, sub_name), SumEntry(output, Len(inputs), n))
    IN  ConnectAll(G1, [j \in 1..Len(inputs) |->
                          <<inputs[j], SumInput(g, i, sub_name, j - 1)>>])

\* Name of the balance component that solves the throttle of comp_name.
BalanceName(comp_name) ==
    CASE comp_name = "eng" -> "eng_throttle_set"
      [] comp_name = "mot" -> "mot_throttle_set"

\* throttle_from_power_balance: one unknown (the throttle of comp_name) and
\* one residual available - required = 0; the solved throttle is wired into
\* the throttle input of comp_name.
throttle_from_power_balance(G, g, i, power_req, power_avail, comp_name) ==
    LET bal == BalanceName(comp_name)
        G1 == AddSubsystem(G, Comp(g, i, bal),
                  Entry("BalanceComp", {"power_available", "power_required"},
                        {"throttle"}, {}, {}, [guess |-> <<1, 2>>]))
    IN  ConnectAll(G1, <<
            <<power_req, P(g, i, bal, "power_required")>>,
            <<power_avail, P(g, i, bal, "power_available")>>,
            <<P(g, i, bal, "throttle"), P(g, i, comp_name, "throttle")>> >>)

(***************************************************************************)
(* Component classes of openconcept.components and openconcept.utilities   *)
(* used by the builder: their variables, and the parameter values the      *)
(* element specs of the model carry (exact rationals).                     *)
(***************************************************************************)
EngPsfc == <<1, 5>>
MotorEff == <<1, 2>>
InverterEff == <<2, 3>>
MechBusEff == <<3, 4>>
MechSplitEff == <<1, 1>>
DCBusEff == <<4, 5>>
ElecSplitEff == <<1, 1>>
GeneratorEff == <<1, 2>>
RectifierEff == <<2, 3>>
GearboxEff == <<3, 4>>
PropGain == <<2, 1>>
SpecificWeight == <<1, 2>>
BaseWeight == <<3, 1>>
BatteryWeight == <<7, 1>>

SimplePropeller ==
    Entry("SimplePropeller",
          {"fltcond|rho", "fltcond|Utrue", "rpm", "diameter", "power_rating", "shaft_power_in"},
          {"thrust", "component_weight"}, {"fltcond|rho", "fltcond|Utrue"}, {"thrust"}, NoOpt)
SimpleGearbox ==
    Entry("SimpleGearbox",
          {"shaft_power_in", "shaft_speed_in", "shaft_speed_out", "shaft_power_rating"},
          {"shaft_power_out", "component_weight"}, {}, {}, [efficiency |-> GearboxEff])
SimpleTurboshaft ==
    Entry("SimpleTurboshaft", {"throttle", "shaft_power_rating"},
          {"shaft_power_out", "fuel_flow", "component_weight"}, {}, {}, [psfc |-> EngPsfc])
SimpleMotor ==
    Entry("SimpleMotor", {"throttle", "elec_power_rating"},
          {"shaft_power_out", "elec_load", "component_weight"}, {}, {},
          [efficiency |-> MotorEff])
SimpleConverterInverted ==
    Entry("SimpleConverterInverted", {"elec_power_out", "elec_power_rating"},
          {"elec_power_in", "component_weight"}, {}, {}, [efficiency |-> InverterEff])
SimpleConverter ==
    Entry("SimpleConverter", {"elec_power_in", "elec_power_rating"},
          {"elec_power_out", "component_weight"}, {}, {}, [efficiency |-> RectifierEff])
SimpleGenerator ==
    Entry("SimpleGenerator", {"shaft_power_in", "elec_power_rating"},
          {"elec_power_out", "component_weight"}, {}, {}, [efficiency |-> GeneratorEff])
SimpleMechBus ==
    Entry("SimpleMechBus", {"shaft_power_in"}, {"shaft_power_out", "output_rpm"}, {}, {},
          [efficiency |-> MechBusEff])
SimpleDCBusInverted ==
    Entry("SimpleDCBusInverted", {"elec_power_out"}, {"elec_power_in"}, {}, {},
          [efficiency |-> DCBusEff])
PowerSplit(eff) ==
    Entry("PowerSplit", {"power_in", "power_split_fraction", "power_rating"},
          {"power_out_A", "power_out_B", "component_weight"}, {}, {}, [efficiency |-> eff])
SOCBattery ==
    Entry("SOCBattery", {"elec_load", "battery_weight", "duration"}, {"SOC"}, {}, {}, NoOpt)
\* ElementMultiplyDivideComp with one equation out = throttle_vec * propulsor_active_flag
ElementMultiply(out) ==
    Entry("ElementMultiplyDivideComp", {"throttle_vec", "propulsor_active_flag"}, {out},
          {}, {}, NoOpt)

(***************************************************************************)
(* Variables.                                                              *)
(***************************************************************************)
VARIABLES
    arch,       \* the PropSysArch handed to the group (options['architecture'])
    input,      \* values set on the group's inputs: throttle and propulsor_active vectors
    pc,         \* the statement setup() has reached
    lane,       \* loop index i of create_mech_group
    graph,      \* subsystems and connections added so far
    top,        \* the lists setup() accumulates
    mech,       \* the lists create_mech_group accumulates
    order,      \* the order list of setup()
    err,        \* the exception that ended setup(), if any
    hist        \* the spec as the caller built it, the assemblies started from it
                \* and the outcome of the first of them

vars == <<arch, input, pc, lane, graph, top, mech, order, err, hist>>

Nodes == 1..NumNodes

(***************************************************************************)
(* Evaluation of the assembled graph at analysis point k, under the        *)
(* external inputs X.  ov is the set of balance components whose throttle  *)
(* is pinned to 1 (used to evaluate the available power of a balance).     *)
(***************************************************************************)
InScope(G, p) == {id \in DOMAIN G.subs : id.g = p.g /\ id.i = p.i}

\* The component-level port a connection target names.
ResolveIn(G, p) ==
    IF p.c # "" THEN p
    ELSE LET owners == {id \in InScope(G, p) : p.v \in G.subs[id].pin}
         IN  IF owners = {} THEN p
             ELSE [p EXCEPT !.c = (CHOOSE id \in owners : TRUE).c]

\* The component-level port a connection source names.
ResolveOut(G, p) ==
    IF p.c # "" THEN p
    ELSE LET owners == {id \in InScope(G, p) : p.v \in G.subs[id].pout}
         IN  IF owners = {} THEN p
             ELSE [p EXCEPT !.c = (CHOOSE id \in owners : TRUE).c]

\* The sources connected to the component-level input q, by its own path or
\* by a promoted name.
Drivers(G, q) ==
    {c[1] : c \in {d \in G.conns :
                      /\ d[2].v = q.v /\ d[2].g = q.g /\ d[2].i = q.i /\ d[2].k = q.k
                      /\ ResolveIn(G, d[2]) = q}}

ExistsIn(G, p) ==
    LET q == ResolveIn(G, p)
    IN  /\ q.c # ""
        /\ CompOf(q) \in DOMAIN G.subs
        /\ q.v \in G.subs[CompOf(q)].ins
        /\ (q.v = "sum_input" => q.k < G.subs[CompOf(q)].opt.nin)

ExistsOut(G, p) ==
    LET q == ResolveOut(G, p)
    IN  /\ q.c # ""
        /\ CompOf(q) \in DOMAIN G.subs
        /\ q.v \in G.subs[CompOf(q)].outs

\* Value of an input nothing is connected to.
DefaultIn(G, X, q, k) ==
    LET e == G.subs[CompOf(q)]
    IN  IF e.kind = "DVLabel"
        THEN IF q.g = "top" /\ q.v \in DOMAIN X THEN X[q.v][k] ELSE e.opt.vals[q.v]
        ELSE One

WeightOf(rating) == RAdd(RMul(rating, SpecificWeight), BaseWeight)

RECURSIVE ValIn(_, _, _, _, _), ValOut(_, _, _, _, _)
ValIn(G, X, q, k, ov) ==
    LET d == Drivers(G, q)
    IN  IF d = {} THEN DefaultIn(G, X, q, k)
        ELSE ValOut(G, X, ResolveOut(G, CHOOSE s \in d : TRUE), k, ov)

ValOut(G, X, o, k, ov) ==
    LET id == CompOf(o)
        e == G.subs[id]
        In(v) == ValIn(G, X, [o EXCEPT !.v = v, !.k = 0], k, ov)
        In0(v) == ValIn(G, X, [o EXCEPT !.v = v, !.k = 0], 1, ov)
        SumIn(j) == ValIn(G, X, [o EXCEPT !.v = "sum_input", !.k = j], k, ov)
    IN  CASE e.kind = "DVLabel" ->
               ValIn(G, X, [o EXCEPT !.v = CHOOSE v \in e.ins : Pass(v) = o.v], k, ov)
          [] e.kind = "IndepVarComp" -> Zero
          [] e.kind = "ExecComp_pass" -> SumIn(0)
          [] e.kind = "AddSubtractComp" ->
               RSum([j \in 1..e.opt.nin |-> SumIn(j - 1)])
          [] e.kind = "SimpleTurboshaft" ->
               (CASE o.v = "shaft_power_out" -> RMul(In("throttle"), In("shaft_power_rating"))
                 [] o.v = "fuel_flow" ->
                      RMul(RMul(In("throttle"), In("shaft_power_rating")), e.opt.psfc)
                 [] o.v = "component_weight" -> WeightOf(In("shaft_power_rating")))
          [] e.kind = "SimpleMotor" ->
               (CASE o.v = "shaft_power_out" ->
                      RMul(RMul(In("throttle"), In("elec_power_rating")), e.opt.efficiency)
                 [] o.v = "elec_load" -> RMul(In("throttle"), In("elec_power_rating"))
                 [] o.v = "component_weight" -> WeightOf(In("elec_power_rating")))
          [] e.kind = "SimpleConverterInverted" ->
               (CASE o.v = "elec_power_in" -> RDiv(In("elec_power_out"), e.opt.efficiency)
                 [] o.v = "component_weight" -> WeightOf(In("elec_power_rating")))
          [] e.kind = "SimpleConverter" ->
               (CASE o.v = "elec_power_out" -> RMul(In("elec_power_in"), e.opt.efficiency)
                 [] o.v = "component_weight" -> WeightOf(In("elec_power_rating")))
          [] e.kind = "SimpleGenerator" ->
               (CASE o.v = "elec_power_out" -> RMul(In("shaft_power_in"), e.opt.efficiency)
                 [] o.v = "component_weight" -> WeightOf(In("elec_power_rating")))
          [] e.kind = "SimpleMechBus" ->
               (CASE o.v = "shaft_power_out" -> RMul(In("shaft_power_in"), e.opt.efficiency)
                 [] o.v = "output_rpm" -> One)
          [] e.kind = "SimpleDCBusInverted" -> RDiv(In("elec_power_out"), e.opt.efficiency)
          [] e.kind = "PowerSplit" ->
               (CASE o.v = "power_out_A" ->
                      RMul(RMul(In("power_in"), In("power_split_fraction")), e.opt.efficiency)
                 [] o.v = "power_out_B" ->
                      RMul(RMul(In("power_in"), RSub(One, In("power_split_fraction"))),
                           e.opt.efficiency)
                 [] o.v = "component_weight" -> BaseWeight)
          [] e.kind = "SOCBattery" ->
               RSub(One, RDiv(RMul(In("elec_load"), In("duration")),
                              RMul(In("battery_weight"), Whole(100))))
          [] e.kind = "SimplePropeller" ->
               (CASE o.v = "thrust" -> RMul(In("shaft_power_in"), PropGain)
                 [] o.v = "component_weight" -> BaseWeight)
          [] e.kind = "SimpleGearbox" ->
               (CASE o.v = "shaft_power_out" -> RMul(In("shaft_power_in"), e.opt.efficiency)
                 [] o.v = "component_weight" -> BaseWeight)
          [] e.kind = "ElementMultiplyDivideComp" ->
               RMul(In("throttle_vec"), In("propulsor_active_flag"))
          [] e.kind = "ScalifyComponent" -> In0("propulsor_active_vector")
          [] e.kind = "ExecComp_sum_rated_power_oei" ->
               RAdd(In("engine_rated_power"), RMul(In("active_flag"), In("motor_rated_power")))
          [] e.kind = "ExecComp_sum_rated_power" ->
               RAdd(In("engine_rated_power"), In("motor_rated_power"))
          [] e.kind = "AddSubtractComp_sizing" ->
               RAdd(In("eng_rated_power"), In("mot_rated_power"))
          [] e.kind = "ExecComp_shaft_power" ->
               RMul(In("throttle_vec"), In("total_rated_power"))
          [] e.kind = "ExecComp_split_fraction" ->
               RMul(In("active_flag_vec"), In("mech_DoH_vec"))
          [] e.kind = "BalanceComp" ->
               IF id \in ov THEN One
               ELSE LET req == In("power_required")
                        avail1 == ValIn(G, X, [o EXCEPT !.v = "power_available"], k,
                                        ov \cup {id})
                    IN  IF avail1 = Zero THEN e.opt.guess ELSE RDiv(req, avail1)

\* Value of the variable a path names, read as OpenMDAO's get_val reads it.
Val(G, X, p, k) == ValOut(G, X, ResolveOut(G, p), k, {})
ValInput(G, X, p, k) == ValIn(G, X, ResolveIn(G, p), k, {})

(***************************************************************************)
(* Exceptions.                                                             *)
(***************************************************************************)
NoErr == [kind |-> "none", msg |-> ""]
Exception(kind, msg) == [kind |-> kind, msg |-> msg]
Group == Entry("Group", {}, {}, {}, {}, NoOpt)

(***************************************************************************)
(* elements/thrust.py: ThrustGenElements.create_thrust_groups              *)
(***************************************************************************)
\* Variant: the lane's shaft power always goes into the propeller.
ThrustGroup_InputToPropeller(G, prop, gearbox, i, nn) ==
    LET g == "thrust"
        G1 == AddSubsystem(G, Comp(g, i, ""), Group)
        G2 == collect_inputs(G1, g, i, "in_collect",
                  (RPM_INPUT :> prop.default_rpm) @@ (DURATION_INPUT :> One)
                  @@ (SHAFT_POWER_INPUT :> One) @@ ("diameter" :> prop.diameter)
                  @@ ("power" :> prop.power_rating))
        G3 == AddSubsystem(G2, Comp(g, i, "prop"), SimplePropeller)
        prop_shaft_power_in == P(g, i, "prop", "shaft_power_in")
        G4 == ConnectAll(G3, <<
                  <<P(g, i, "", Pass(RPM_INPUT)), P(g, i, "prop", "rpm")>>,
                  <<P(g, i, "", Pass("diameter")), P(g, i, "prop", "diameter")>>,
                  <<P(g, i, "", Pass("power")), P(g, i, "prop", "power_rating")>> >>)
        G5 == IF ~IsNone(gearbox)
              THEN Connect(AddSubsystem(G4, Comp(g, i, "gearbox"), SimpleGearbox),
                           P(g, i, "gearbox", "shaft_power_out"), prop_shaft_power_in)
              ELSE G4
        shaft_power_input_param ==
              IF ~IsNone(gearbox) THEN P(g, i, "gearbox", "shaft_power_in")
              ELSE prop_shaft_power_in
        weights == IF ~IsNone(gearbox)
                   THEN <<P(g, i, "prop", "component_weight"),
                          P(g, i, "gearbox", "component_weight")>>
                   ELSE <<P(g, i, "prop", "component_weight")>>
        G6 == Connect(G5, P(g, i, "", Pass(SHAFT_POWER_INPUT)), prop_shaft_power_in)
    IN  create_output_sum(G6, g, i, WEIGHT_OUTPUT, weights, 1)

\* One iteration of the loop over the propellers: the thrust group of lane i.
ThrustGroup(G, prop, gearbox, i, nn) ==
    LET g == "thrust"
        G1 == AddSubsystem(G, Comp(g, i, ""), Group)
        G2 == collect_inputs(G1, g, i, "in_collect",
                  (RPM_INPUT :> prop.default_rpm) @@ (DURATION_INPUT :> One)
                  @@ (SHAFT_POWER_INPUT :> One) @@ ("diameter" :> prop.diameter)
                  @@ ("power" :> prop.power_rating))
        G3 == AddSubsystem(G2, Comp(g, i, "prop"), SimplePropeller)
        prop_shaft_power_in == P(g, i, "prop", "shaft_power_in")
        G4 == ConnectAll(G3, <<
                  <<P(g, i, "", Pass(RPM_INPUT)), P(g, i, "prop", "rpm")>>,
                  <<P(g, i, "", Pass("diameter")), P(g, i, "prop", "diameter")>>,
                  <<P(g, i, "", Pass("power")), P(g, i, "prop", "power_rating")>> >>)
        G5 == IF ~IsNone(gearbox)
              THEN Connect(AddSubsystem(G4, Comp(g, i, "gearbox"), SimpleGearbox),
                           P(g, i, "gearbox", "shaft_power_out"), prop_shaft_power_in)
              ELSE G4
        shaft_power_input_param ==
              IF ~IsNone(gearbox) THEN P(g, i, "gearbox", "shaft_power_in")
              ELSE prop_shaft_power_in
        weights == IF ~IsNone(gearbox)
                   THEN <<P(g, i, "prop", "component_weight"),
                          P(g, i, "gearbox", "component_weight")>>
                   ELSE <<P(g, i, "prop", "component_weight")>>
        G6 == Connect(G5, P(g, i, "", Pass(SHAFT_POWER_INPUT)), shaft_power_input_param)
    IN  create_output_sum(G6, g, i, WEIGHT_OUTPUT, weights, 1)

RECURSIVE ThrustLoop(_, _, _, _, _)
ThrustLoop(G, props, gearboxes, i, nn) ==
    IF i >= Len(props) THEN G
    ELSE ThrustLoop(ThrustGroup(G, props[i + 1], gearboxes[i + 1], i, nn),
                    props, gearboxes, i + 1, nn)

\* Variant: only a gearbox list shorter than the propellers is refused.
create_thrust_groups_ShortOnly(G, thrust, nn) ==
    LET props == thrust.propellers
    IN  IF ~IsNone(thrust.gearboxes) /\ Len(thrust.gearboxes.items) < Len(props)
        THEN [G |-> G, groups |-> <<>>,
              err |-> Exception("RuntimeError", "Nr of props not the same as gearboxes")]
        ELSE LET gearboxes == IF IsNone(thrust.gearboxes)
                              THEN [j \in 1..Len(props) |-> None]
                              ELSE thrust.gearboxes.items
             IN  [G |-> ThrustLoop(G, props, gearboxes, 0, nn),
                  groups |-> [j \in 1..Len(props) |-> j - 1],
                  err |-> NoErr]

\* Result: the graph, the list of thrust groups (lane indices) and the
\* exception raised, if any.
create_thrust_groups(G, thrust, nn) ==
    LET props == thrust.propellers
    IN  IF ~IsNone(thrust.gearboxes) /\ Len(thrust.gearboxes.items) # Len(props)
        THEN [G |-> G, groups |-> <<>>,
              err |-> Exception("RuntimeError", "Nr of props not the same as gearboxes")]
        ELSE LET gearboxes == IF IsNone(thrust.gearboxes)
                              THEN [j \in 1..Len(props) |-> None]
                              ELSE thrust.gearboxes.items
             IN  [G |-> ThrustLoop(G, props, gearboxes, 0, nn),
                  groups |-> [j \in 1..Len(props) |-> j - 1],
                  err |-> NoErr]

(***************************************************************************)
(* elements/mech.py: MechPowerElements.create_mech_group                   *)
(***************************************************************************)
\* Variant: a single element is given to the first lane only.
Broadcast_FirstLane(x, n_thrust) ==
    IF IsList(x) THEN x.items ELSE [j \in 1..n_thrust |-> IF j = 1 THEN x ELSE None]

\* "if x is None or isinstance(x, Cls): x = [x for _ in range(n_thrust)]"
Broadcast(x, n_thrust) == IF IsList(x) THEN x.items ELSE [j \in 1..n_thrust |-> x]

\* The per-lane elements, after broadcasting.
LaneSpec(m, n_thrust, i) ==
    [engine |-> Broadcast(m.engines, n_thrust)[i + 1],
     motor |-> Broadcast(m.motors, n_thrust)[i + 1],
     inverter |-> Broadcast(m.inverters, n_thrust)[i + 1],
     mech_splitter |-> Broadcast(m.mech_splitters, n_thrust)[i + 1],
     mech_bus |-> Broadcast(m.mech_buses, n_thrust)[i + 1]]

\* Lines 143-158: the mech group, its inputs and the empty output lists.
MechEmptyLists == [fuel_flow_outputs |-> <<>>, weight_outputs |-> <<>>,
                   electric_load_outputs |-> <<>>]

MechGroupInputs(G) ==
    collect_inputs(AddSubsystem(G, Comp("mech", 0, ""), Group), "mech", 0, "mech_in_collect",
        (THROTTLE_INPUT :> One) @@ (DURATION_INPUT :> One) @@ (ACTIVE_INPUT :> One)
        @@ (FLTCOND_RHO_INPUT :> One) @@ (FLTCOND_TAS_INPUT :> One))

\* Working state of one iteration of the loop over the thrust groups.
LaneState(G, M) ==
    [G |-> G, M |-> M, shaft_power_out_param |-> None, shaft_speed_out_param |-> None,
     rated_power_out_param |-> None, throttle_param |-> None, err |-> NoErr]

Raise(S, kind, msg) == [S EXCEPT !.err = Exception(kind, msg)]

\* Variant: the first lane taken for the one that can be switched off.
IsOEILane_First(i) == i = 0

\* Variant: every lane after the first can be switched off.
IsOEILane_FromSecond(i) == i >= 1

\* "if i == 1": the lane that carries the one-propulsor-inoperative case
IsOEILane(i) == i = 1

\* Variant: the split fraction of every lane comes straight from mech_DoH.
HybridSplitFraction_NoOEI(G, g, i) ==
    Connect(AddSubsystem(G, Comp(g, i, "split"), PowerSplit(MechSplitEff)),
            P(g, i, "", Pass("mech_DoH")), P(g, i, "split", "power_split_fraction"))

\* Lines 292-313: the splitter and the source of its split fraction; on the
\* one-propulsor-inoperative lane mech_DoH is first multiplied by the
\* propulsor_active vector.
HybridSplitFraction(G, g, i) ==
    IF IsOEILane(i)
    THEN Connect(
             AddSubsystem(
                 ConnectAll(
                     AddSubsystem(G, Comp(g, i, "get_split_fraction"),
                         Entry("ExecComp_split_fraction", {"active_flag_vec", "mech_DoH_vec"},
                               {"split_fraction_vec"}, {}, {}, NoOpt)),
                     << <<P(g, i, "", Pass("mech_DoH")),
                          P(g, i, "get_split_fraction", "mech_DoH_vec")>>,
                        <<P("mech", 0, "", Pass(ACTIVE_INPUT)),
                          P(g, i, "get_split_fraction", "active_flag_vec")>> >>),
                 Comp(g, i, "split"), PowerSplit(MechSplitEff)),
             P(g, i, "get_split_fraction", "split_fraction_vec"),
             P(g, i, "split", "power_split_fraction"))
    ELSE Connect(AddSubsystem(G, Comp(g, i, "split"), PowerSplit(MechSplitEff)),
                 P(g, i, "", Pass("mech_DoH")), P(g, i, "split", "power_split_fraction"))

\* Variant: the outputs of the splitter taken the other way round.
HybridRequired_Swapped(g, i) ==
    [motor |-> P(g, i, "split", "power_out_B"), eng |-> P(g, i, "split", "power_out_A")]

\* Lines 323-324: motor_req_power_out and eng_req_power_out
HybridRequired(g, i) ==
    [motor |-> P(g, i, "split", "power_out_A"), eng |-> P(g, i, "split", "power_out_B")]

\* Variant: a balance for the engine only, the motor left without one.
HybridBalances_EngineOnly(G, g, i) ==
    throttle_from_power_balance(G, g, i, HybridRequired(g, i).eng,
                                P(g, i, "eng", "shaft_power_out"), "eng")

\* Variant: the motor's balance reads the engine's shaft power as available.
HybridBalances_Crossed(G, g, i) ==
    throttle_from_power_balance(
        throttle_from_power_balance(G, g, i, HybridRequired(g, i).eng,
                                    P(g, i, "eng", "shaft_power_out"), "eng"),
        g, i, HybridRequired(g, i).motor, P(g, i, "eng", "shaft_power_out"), "mot")

\* Lines 330-339: one balance for the engine's throttle, one for the motor's.
HybridBalances(G, g, i) ==
    throttle_from_power_balance(
        throttle_from_power_balance(G, g, i, HybridRequired(g, i).eng,
                                    P(g, i, "eng", "shaft_power_out"), "eng"),
        g, i, HybridRequired(g, i).motor, P(g, i, "mot", "shaft_power_out"), "mot")

\* Variant: the thrust chain is sized by the flag-dependent power sum.
HybridRatedPowerOut_Sum(g, i) == P(g, i, "sum_rated_power", "tot_rated_power")

\* Lines 346-347: rated_power_out_param of a lane with engine and motor
HybridRatedPowerOut(g, i) == P(g, i, "sizing_rated_power", "tot_rated_power")

\* Lines 173-347: engine and motor on one lane (parallel hybrid).
HybridBranch(S, sp, i, nn) ==
    LET g == "lane"
        G1 == collect_inputs(S.G, g, i, "eng_in_collect",
                  ("eng_rating" :> sp.engine.power_rating) @@ ("eng_output_rpm" :> One))
        G2 == Connect(AddSubsystem(G1, Comp(g, i, "eng"), SimpleTurboshaft),
                  P(g, i, "", Pass("eng_rating")), P(g, i, "eng", "shaft_power_rating"))
        G3 == collect_inputs(G2, g, i, "motor_in_collect",
                  ("motor_rating" :> sp.motor.power_rating) @@ ("motor_output_rpm" :> One))
        G4 == Connect(AddSubsystem(G3, Comp(g, i, "mot"), SimpleMotor),
                  P(g, i, "", Pass("motor_rating")), P(g, i, "mot", "elec_power_rating"))
        G5 == IF IsOEILane(i)
              THEN ConnectAll(
                     AddSubsystem(
                       Connect(
                         AddSubsystem(G4, Comp(g, i, "scalify_active_input"),
                           Entry("ScalifyComponent", {"propulsor_active_vector"},
                                 {"propulsor_active_scalar"}, {}, {}, NoOpt)),
                         P("mech", 0, "", Pass(ACTIVE_INPUT)),
                         P(g, i, "scalify_active_input", "propulsor_active_vector")),
                       Comp(g, i, "sum_rated_power"),
                       Entry("ExecComp_sum_rated_power_oei",
                             {"engine_rated_power", "active_flag", "motor_rated_power"},
                             {"tot_rated_power"}, {}, {}, NoOpt)),
                     << <<P(g, i, "", Pass("eng_rating")),
                          P(g, i, "sum_rated_power", "engine_rated_power")>>,
                        <<P(g, i, "", Pass("motor_rating")),
                          P(g, i, "sum_rated_power", "motor_rated_power")>>,
                        <<P(g, i, "scalify_active_input", "propulsor_active_scalar"),
                          P(g, i, "sum_rated_power", "active_flag")>> >>)
              ELSE ConnectAll(
                     AddSubsystem(G4, Comp(g, i, "sum_rated_power"),
                       Entry("ExecComp_sum_rated_power",
                             {"engine_rated_power", "motor_rated_power"},
                             {"tot_rated_power"}, {}, {}, NoOpt)),
                     << <<P(g, i, "", Pass("eng_rating")),
                          P(g, i, "sum_rated_power", "engine_rated_power")>>,
                        <<P(g, i, "", Pass("motor_rating")),
                          P(g, i, "sum_rated_power", "motor_rated_power")>> >>)
        G6 == ConnectAll(
                AddSubsystem(G5, Comp(g, i, "sizing_rated_power"),
                  Entry("AddSubtractComp_sizing", {"eng_rated_power", "mot_rated_power"},
                        {"tot_rated_power"}, {}, {}, NoOpt)),
                << <<P(g, i, "", Pass("eng_rating")),
                     P(g, i, "sizing_rated_power", "eng_rated_power")>>,
                   <<P(g, i, "", Pass("motor_rating")),
                     P(g, i, "sizing_rated_power", "mot_rated_power")>> >>)
        G7 == Connect(
                AddSubsystem(G6, Comp(g, i, "eng_motor_shaft_power"),
                  Entry("ExecComp_shaft_power", {"throttle_vec", "total_rated_power"},
                        {"tot_shaft_power"}, {}, {}, NoOpt)),
                P(g, i, "sum_rated_power", "tot_rated_power"),
                P(g, i, "eng_motor_shaft_power", "total_rated_power"))
        G8 == Connect(AddSubsystem(G7, Comp(g, i, "bus"), SimpleMechBus),
                P(g, i, "eng_motor_shaft_power", "tot_shaft_power"),
                P(g, i, "bus", "shaft_power_in"))
        G9 == collect_inputs(G8, g, i, "splitter_in_collect",
                  ("mech_DoH" :> sp.mech_splitter.mech_DoH))
        G12 == HybridSplitFraction(G9, g, i)
        G13 == Connect(G12, P(g, i, "eng_motor_shaft_power", "tot_shaft_power"),
                       P(g, i, "split", "power_in"))
        G15 == HybridBalances(G13, g, i)
        load == IF IsNone(sp.inverter)
                THEN Append(S.M.electric_load_outputs, P(g, i, "mot", "elec_load"))
                ELSE S.M.electric_load_outputs
    IN  [S EXCEPT
           !.G = G15,
           !.M = [fuel_flow_outputs |->
                      Append(S.M.fuel_flow_outputs, P(g, i, "eng", "fuel_flow")),
                  weight_outputs |->
                      S.M.weight_outputs \o <<P(g, i, "eng", "component_weight"),
                                               P(g, i, "mot", "component_weight"),
                                               P(g, i, "split", "component_weight")>>,
                  electric_load_outputs |-> load],
           !.throttle_param = P(g, i, "eng_motor_shaft_power", "throttle_vec"),
           !.shaft_power_out_param = P(g, i, "bus", "shaft_power_out"),
           !.shaft_speed_out_param = P(g, i, "bus", "output_rpm"),
           !.rated_power_out_param = HybridRatedPowerOut(g, i)]

\* Variant: the engine of the second lane takes the throttle directly.
EngineBranch_NoOEI(S, sp, i, nn) ==
    [S EXCEPT
       !.G = Connect(
                 AddSubsystem(
                     collect_inputs(S.G, "lane", i, "eng_in_collect",
                         ("rating" :> sp.engine.power_rating) @@ ("output_rpm" :> One)),
                     Comp("lane", i, "eng"), SimpleTurboshaft),
                 P("lane", i, "", Pass("rating")), P("lane", i, "eng", "shaft_power_rating")),
       !.M.fuel_flow_outputs = Append(@, P("lane", i, "eng", "fuel_flow")),
       !.M.weight_outputs = Append(@, P("lane", i, "eng", "component_weight")),
       !.shaft_power_out_param = P("lane", i, "eng", "shaft_power_out"),
       !.shaft_speed_out_param = P("lane", i, "", Pass("output_rpm")),
       !.rated_power_out_param = P("lane", i, "", Pass("rating")),
       !.throttle_param = P("lane", i, "eng", "throttle")]

\* Lines 349-386: a turboshaft engine alone on the lane.
EngineBranch(S, sp, i, nn) ==
    LET g == "lane"
        G1 == collect_inputs(S.G, g, i, "eng_in_collect",
                  ("rating" :> sp.engine.power_rating) @@ ("output_rpm" :> One))
        G2 == IF IsOEILane(i) /\ IsNone(sp.motor)
              THEN Connect(AddSubsystem(G1, Comp(g, i, "failedengine"),
                                        ElementMultiply("eng2throttle")),
                           P("mech", 0, "", Pass(ACTIVE_INPUT)),
                           P(g, i, "failedengine", "propulsor_active_flag"))
              ELSE G1
        G3 == Connect(AddSubsystem(G2, Comp(g, i, "eng"), SimpleTurboshaft),
                  P(g, i, "", Pass("rating")), P(g, i, "eng", "shaft_power_rating"))
        G4 == IF IsOEILane(i)
              THEN Connect(G3, P(g, i, "failedengine", "eng2throttle"),
                           P(g, i, "eng", "throttle"))
              ELSE G3
    IN  [S EXCEPT
           !.G = G4,
           !.M.fuel_flow_outputs = Append(@, P(g, i, "eng", "fuel_flow")),
           !.M.weight_outputs = Append(@, P(g, i, "eng", "component_weight")),
           !.shaft_power_out_param = P(g, i, "eng", "shaft_power_out"),
           !.shaft_speed_out_param = P(g, i, "", Pass("output_rpm")),
           !.rated_power_out_param = P(g, i, "", Pass("rating")),
           !.throttle_param = IF IsOEILane(i) THEN P(g, i, "failedengine", "throttle_vec")
                              ELSE P(g, i, "eng", "throttle")]

\* Lines 388-428: an electric motor alone on the lane.
MotorBranch(S, sp, i, nn) ==
    LET g == "lane"
        G1 == collect_inputs(S.G, g, i, "motor_in_collect",
                  ("rating" :> sp.motor.power_rating) @@ ("output_rpm" :> One))
        G2 == IF IsOEILane(i)
              THEN Connect(AddSubsystem(G1, Comp(g, i, "failedmotor"),
                                        ElementMultiply("motor2throttle")),
                           P("mech", 0, "", Pass(ACTIVE_INPUT)),
                           P(g, i, "failedmotor", "propulsor_active_flag"))
              ELSE G1
        G3 == Connect(AddSubsystem(G2, Comp(g, i, "mot"), SimpleMotor),
                  P(g, i, "", Pass("rating")), P(g, i, "mot", "elec_power_rating"))
        G4 == IF IsOEILane(i)
              THEN Connect(G3, P(g, i, "failedmotor", "motor2throttle"),
                           P(g, i, "mot", "throttle"))
              ELSE G3
    IN  [S EXCEPT
           !.G = G4,
           !.M.weight_outputs = Append(@, P(g, i, "mot", "component_weight")),
           !.M.electric_load_outputs =
               IF IsNone(sp.inverter) THEN Append(@, P(g, i, "mot", "elec_load")) ELSE @,
           !.shaft_power_out_param = P(g, i, "mot", "shaft_power_out"),
           !.shaft_speed_out_param = P(g, i, "", Pass("output_rpm")),
           !.rated_power_out_param = P(g, i, "", Pass("rating")),
           !.throttle_param = IF IsOEILane(i) THEN P(g, i, "failedmotor", "throttle_vec")
                              ELSE P(g, i, "mot", "throttle")]

\* Variant: the inverter's weight is not added to the weights.
InverterPart_NoWeight(S, sp, i, nn) ==
    LET g == "lane"
    IN  IF IsNone(sp.inverter) THEN S
        ELSE IF IsNone(sp.motor) THEN Raise(S, "RuntimeError", "Inverter is added but no Motor!")
        ELSE LET G1 == AddSubsystem(S.G, Comp(g, i, "inv"), SimpleConverterInverted)
                 rating == IF IsNone(sp.engine) THEN P(g, i, "", Pass("rating"))
                           ELSE P(g, i, "", Pass("motor_rating"))
                 G2 == ConnectAll(G1, <<
                           <<rating, P(g, i, "inv", "elec_power_rating")>>,
                           <<P(g, i, "mot", "elec_load"), P(g, i, "inv", "elec_power_out")>> >>)
             IN  [S EXCEPT
                    !.G = G2,
                    !.M.electric_load_outputs = Append(@, P(g, i, "inv", "elec_power_in"))]

\* Variant: the inverter's input power is not added to the electric loads.
InverterPart_NoLoad(S, sp, i, nn) ==
    LET g == "lane"
    IN  IF IsNone(sp.inverter) THEN S
        ELSE IF IsNone(sp.motor) THEN Raise(S, "RuntimeError", "Inverter is added but no Motor!")
        ELSE LET G1 == AddSubsystem(S.G, Comp(g, i, "inv"), SimpleConverterInverted)
                 rating == IF IsNone(sp.engine) THEN P(g, i, "", Pass("rating"))
                           ELSE P(g, i, "", Pass("motor_rating"))
                 G2 == ConnectAll(G1, <<
                           <<rating, P(g, i, "inv", "elec_power_rating")>>,
                           <<P(g, i, "mot", "elec_load"), P(g, i, "inv", "elec_power_out")>> >>)
             IN  [S EXCEPT
                    !.G = G2,
                    !.M.weight_outputs = Append(@, P(g, i, "inv", "component_weight"))]

\* Lines 430-448: the optional inverter between the motor and the electric load.
InverterPart(S, sp, i, nn) ==
    LET g == "lane"
    IN  IF IsNone(sp.inverter) THEN S
        ELSE IF IsNone(sp.motor) THEN Raise(S, "RuntimeError", "Inverter is added but no Motor!")
        ELSE LET G1 == AddSubsystem(S.G, Comp(g, i, "inv"), SimpleConverterInverted)
                 rating == IF IsNone(sp.engine) THEN P(g, i, "", Pass("rating"))
                           ELSE P(g, i, "", Pass("motor_rating"))
                 G2 == ConnectAll(G1, <<
                           <<rating, P(g, i, "inv", "elec_power_rating")>>,
                           <<P(g, i, "mot", "elec_load"), P(g, i, "inv", "elec_power_out")>> >>)
             IN  [S EXCEPT
                    !.G = G2,
                    !.M.weight_outputs = Append(@, P(g, i, "inv", "component_weight")),
                    !.M.electric_load_outputs = Append(@, P(g, i, "inv", "elec_power_in"))]

\* Variant: the shaft power is also wired straight into the propeller.
LaneOutputs_AlsoToPropeller(S, thrust_group, i) ==
    LET G1 == Connect(S.G, P("mech", 0, "", Pass(THROTTLE_INPUT)), S.throttle_param)
    IN  IF IsNone(S.shaft_power_out_param)
        THEN Raise([S EXCEPT !.G = G1], "RuntimeError", "No shaft power generated")
        ELSE [S EXCEPT !.G = ConnectAll(G1, <<
                 <<S.shaft_power_out_param, P("thrust", thrust_group, "", SHAFT_POWER_INPUT)>>,
                 <<S.shaft_power_out_param, P("thrust", thrust_group, "prop", "shaft_power_in")>>,
                 <<S.shaft_speed_out_param, P("thrust", thrust_group, "", SHAFT_SPEED_INPUT)>>,
                 <<S.rated_power_out_param, P("thrust", thrust_group, "", RATED_POWER_INPUT)>> >>)]

\* Lines 450-458: the throttle into the lane, the lane's outputs into its
\* thrust group.
LaneOutputs(S, thrust_group, i) ==
    LET G1 == Connect(S.G, P("mech", 0, "", Pass(THROTTLE_INPUT)), S.throttle_param)
    IN  IF IsNone(S.shaft_power_out_param)
        THEN Raise([S EXCEPT !.G = G1], "RuntimeError", "No shaft power generated")
        ELSE [S EXCEPT !.G = ConnectAll(G1, <<
                 <<S.shaft_power_out_param, P("thrust", thrust_group, "", SHAFT_POWER_INPUT)>>,
                 <<S.shaft_speed_out_param, P("thrust", thrust_group, "", SHAFT_SPEED_INPUT)>>,
                 <<S.rated_power_out_param, P("thrust", thrust_group, "", RATED_POWER_INPUT)>> >>)]

\* Variant: the block of the motor is not entered.
LaneSources_NoMotorBlock(S, sp, i, nn) ==
    IF ~IsNone(sp.engine) /\ ~IsNone(sp.motor)
    THEN IF IsNone(sp.mech_bus) \/ IsNone(sp.mech_splitter)
         THEN Raise(S, "RuntimeError", "mech_buses and mech_splitters must be provided")
         ELSE HybridBranch(S, sp, i, nn)
    ELSE IF ~IsNone(sp.engine) THEN EngineBranch(S, sp, i, nn)
    ELSE S

\* Variant: only the splitter is required of a lane with engine and motor.
LaneSources_NoBusCheck(S, sp, i, nn) ==
    IF ~IsNone(sp.engine) /\ ~IsNone(sp.motor)
    THEN IF IsNone(sp.mech_splitter)
         THEN Raise(S, "RuntimeError", "mech_buses and mech_splitters must be provided")
         ELSE HybridBranch(S, sp, i, nn)
    ELSE IF ~IsNone(sp.engine) THEN EngineBranch(S, sp, i, nn)
    ELSE MotorBranch(S, sp, i, nn)

\* Lines 173-428: the three exclusive "if" blocks on engine and motor.
LaneSources(S, sp, i, nn) ==
    IF ~IsNone(sp.engine) /\ ~IsNone(sp.motor)
    THEN IF IsNone(sp.mech_bus) \/ IsNone(sp.mech_splitter)
         THEN Raise(S, "RuntimeError", "mech_buses and mech_splitters must be provided")
         ELSE HybridBranch(S, sp, i, nn)
    ELSE IF ~IsNone(sp.engine) THEN EngineBranch(S, sp, i, nn)
    ELSE MotorBranch(S, sp, i, nn)

\* An exception ends the builder; otherwise it goes on with the next block.
LaneInverter(S, sp, i, nn) == IF S.err # NoErr THEN S ELSE InverterPart(S, sp, i, nn)
LaneFinish(S, thrust_group, i) == IF S.err # NoErr THEN S ELSE LaneOutputs(S, thrust_group, i)

\* Lines 159-458: one iteration of the loop, for thrust group number i.
MechLane(G, M, sp, thrust_group, i, nn) ==
    IF IsNone(sp.engine) /\ IsNone(sp.motor)
    THEN Raise(LaneState(G, M), "RuntimeError", "Either engine or motor should be present")
    ELSE LaneFinish(
             LaneInverter(
                 LaneSources(LaneState(AddSubsystem(G, Comp("lane", i, ""), Group), M),
                             sp, i, nn),
                 sp, i, nn),
             thrust_group, i)

\* Lines 460-468: the output sums of the mech group and whether electric
\* power generation is needed.
MechOutputSums(G, M, nn) ==
    create_output_sum(
        create_output_sum(
            create_output_sum(G, "mech", 0, FUEL_FLOW_OUTPUT, M.fuel_flow_outputs, nn),
            "mech", 0, WEIGHT_OUTPUT, M.weight_outputs, 1),
        "mech", 0, ELECTRIC_POWER_OUTPUT, M.electric_load_outputs, nn)

\* Variant: electric power generation reported as needed for every architecture.
ElectricPowerNeeded_Always(M) == TRUE

ElectricPowerNeeded(M) == Len(M.electric_load_outputs) > 0

(***************************************************************************)
(* elements/electric.py: ElectricPowerElements.create_electric_group       *)
(***************************************************************************)
ElecState(G) ==
    [G |-> G, elec_load_input |-> None, fuel_flow_outputs |-> <<>>, weight_outputs |-> <<>>,
     soc_outputs |-> <<>>, battery_req_power_out |-> None, eng_chain_req_power_out |-> None,
     err |-> NoErr]

\* Lines 123-140: the elec group, its inputs and the optional DC bus.
ElecBegin(G, el, nn) ==
    LET G1 == collect_inputs(AddSubsystem(G, Comp("elec", 0, ""), Group), "elec", 0,
                  "elec_in_collect",
                  (DURATION_INPUT :> One) @@ (FLTCOND_RHO_INPUT :> One)
                  @@ (FLTCOND_TAS_INPUT :> One))
    IN  IF ~IsNone(el.dc_bus)
        THEN [ElecState(AddSubsystem(G1, Comp("elec", 0, "bus"), SimpleDCBusInverted))
                 EXCEPT !.elec_load_input = P("elec", 0, "bus", "elec_power_out")]
        ELSE ElecState(G1)

\* Variant: the splitter requires the DC bus only.
ElecSplitterPart_BusOnly(S, el, nn) ==
    IF IsNone(el.splitter) THEN S
    ELSE IF IsNone(el.dc_bus)
    THEN Raise(S, "RuntimeError", "dc_bus is required with a splitter")
    ELSE [S EXCEPT
            !.G = ConnectAll(
                      AddSubsystem(
                          collect_inputs(S.G, "elec", 0, "splitter_in_collect",
                              ("elec_DoH" :> el.splitter.elec_DoH)),
                          Comp("elec", 0, "split"), PowerSplit(ElecSplitEff)),
                      << <<P("elec", 0, "", Pass("elec_DoH")),
                           P("elec", 0, "split", "power_split_fraction")>>,
                         <<P("elec", 0, "bus", "elec_power_in"),
                           P("elec", 0, "split", "power_in")>> >>),
            !.battery_req_power_out = P("elec", 0, "split", "power_out_A"),
            !.eng_chain_req_power_out = P("elec", 0, "split", "power_out_B"),
            !.weight_outputs = Append(@, P("elec", 0, "split", "component_weight"))]

\* Lines 142-164: the splitter between the batteries and the engine chain.
ElecSplitterPart(S, el, nn) ==
    IF IsNone(el.splitter) THEN S
    ELSE IF IsNone(el.dc_bus)
    THEN Raise(S, "RuntimeError", "dc_bus is required with a splitter")
    ELSE IF IsNone(el.engines_dc) \/ IsNone(el.batteries)
    THEN Raise(S, "RuntimeError", "both engines and batteries are required with splitter")
    ELSE LET g == "elec"
             G1 == collect_inputs(S.G, g, 0, "splitter_in_collect",
                       ("elec_DoH" :> el.splitter.elec_DoH))
             G2 == AddSubsystem(G1, Comp(g, 0, "split"), PowerSplit(ElecSplitEff))
             G3 == ConnectAll(G2, <<
                       <<P(g, 0, "", Pass("elec_DoH")), P(g, 0, "split", "power_split_fraction")>>,
                       <<P(g, 0, "bus", "elec_power_in"), P(g, 0, "split", "power_in")>> >>)
         IN  [S EXCEPT !.G = G3,
                       !.battery_req_power_out = P(g, 0, "split", "power_out_A"),
                       !.eng_chain_req_power_out = P(g, 0, "split", "power_out_B"),
                       !.weight_outputs = Append(@, P(g, 0, "split", "component_weight"))]

\* Variant: a list of batteries is taken for a battery pack.
BatteriesListCheck_Skip(S, el) == S

\* Lines 166-174: batteries given as a list.
BatteriesListCheck(S, el) ==
    IF S.err # NoErr THEN S
    ELSE IF IsList(el.batteries)
    THEN IF Len(el.batteries.items) = 1
         THEN Raise(S, "RuntimeError", "for one Battery pack, use batteries=Batteries(..)")
         ELSE IF Len(el.batteries.items) > 1
         THEN Raise(S, "NotImplementedError", "multiple battery pack design is not implemented")
         ELSE Raise(S, "ValueError", "Battery pack list cannot be empty")
    ELSE S

\* Variant: the battery takes the whole bus demand, splitter or not.
BatteriesPart_BusLoad(S, el, nn) ==
    IF S.err # NoErr \/ IsNone(el.batteries) THEN S
    ELSE IF IsNone(el.dc_bus)
    THEN Raise(S, "RuntimeWarning",
               "motors AC power load should not be connected directly to Battery")
    ELSE [S EXCEPT
            !.G = ConnectAll(
                      AddSubsystem(
                          collect_inputs(S.G, "elec", 0, "bat_in_collect",
                              ("weight" :> BatteryWeight)),
                          Comp("elec", 0, "bat"), SOCBattery),
                      << <<P("elec", 0, "bus", "elec_power_in"), P("elec", 0, "bat", "elec_load")>>,
                         <<P("elec", 0, "", Pass("weight")),
                           P("elec", 0, "bat", "battery_weight")>>,
                         <<P("elec", 0, "", Pass(DURATION_INPUT)),
                           P("elec", 0, "bat", "duration")>> >>),
            !.weight_outputs = Append(@, P("elec", 0, "", Pass("weight"))),
            !.soc_outputs = Append(@, P("elec", 0, "bat", "SOC"))]

\* Lines 176-203: the battery pack.
BatteriesPart(S, el, nn) ==
    IF S.err # NoErr \/ IsNone(el.batteries) THEN S
    ELSE LET g == "elec"
             G1 == collect_inputs(S.G, g, 0, "bat_in_collect", ("weight" :> BatteryWeight))
             G2 == AddSubsystem(G1, Comp(g, 0, "bat"), SOCBattery)
             S1 == [S EXCEPT !.G = G2,
                             !.weight_outputs = Append(@, P(g, 0, "", Pass("weight"))),
                             !.soc_outputs = Append(@, P(g, 0, "bat", "SOC"))]
         IN  IF IsNone(el.dc_bus)
             THEN Raise([S1 EXCEPT !.elec_load_input = P(g, 0, "bat", "elec_load")],
                        "RuntimeWarning",
                        "motors AC power load should not be connected directly to Battery")
             ELSE LET G3 == IF IsNone(el.splitter)
                            THEN Connect(G2, P(g, 0, "bus", "elec_power_in"),
                                         P(g, 0, "bat", "elec_load"))
                            ELSE Connect(G2, S.battery_req_power_out,
                                         P(g, 0, "bat", "elec_load"))
                      G4 == ConnectAll(G3, <<
                                <<P(g, 0, "", Pass("weight")), P(g, 0, "bat", "battery_weight")>>,
                                <<P(g, 0, "", Pass(DURATION_INPUT)), P(g, 0, "bat", "duration")>> >>)
                  IN  [S1 EXCEPT !.G = G4]

\* Lines 205-254: the engine -> generator -> rectifier chain and its balance.
EngineChainPart(S, el, nn) ==
    IF S.err # NoErr \/ IsNone(el.engines_dc) THEN S
    ELSE LET g == "elec"
             engine == el.engines_dc.engine
             G1 == collect_inputs(S.G, g, 0, "eng_in_collect",
                       ("rating" :> engine.power_rating) @@ ("output_rpm" :> One))
             G2 == Connect(AddSubsystem(G1, Comp(g, 0, "eng"), SimpleTurboshaft),
                       P(g, 0, "", Pass("rating")), P(g, 0, "eng", "shaft_power_rating"))
             G3 == ConnectAll(AddSubsystem(G2, Comp(g, 0, "gen"), SimpleGenerator), <<
                       <<P(g, 0, "", Pass("rating")), P(g, 0, "gen", "elec_power_rating")>>,
                       <<P(g, 0, "eng", "shaft_power_out"), P(g, 0, "gen", "shaft_power_in")>> >>)
             G4 == ConnectAll(AddSubsystem(G3, Comp(g, 0, "rect"), SimpleConverter), <<
                       <<P(g, 0, "", Pass("rating")), P(g, 0, "rect", "elec_power_rating")>>,
                       <<P(g, 0, "gen", "elec_power_out"), P(g, 0, "rect", "elec_power_in")>> >>)
             eng_chain_avail_power_out == P(g, 0, "rect", "elec_power_out")
             S1 == [S EXCEPT !.G = G4,
                       !.fuel_flow_outputs = Append(@, P(g, 0, "eng", "fuel_flow")),
                       !.weight_outputs = @ \o <<P(g, 0, "eng", "component_weight"),
                                                 P(g, 0, "gen", "component_weight"),
                                                 P(g, 0, "rect", "component_weight")>>]
         IN  \* eng_chain_req_power_out is assigned in the splitter branch only
             IF IsNone(el.splitter)
             THEN Raise(S1, "UnboundLocalError", "eng_chain_req_power_out")
             ELSE [S1 EXCEPT !.G = throttle_from_power_balance(G4, g, 0,
                                       S.eng_chain_req_power_out,
                                       eng_chain_avail_power_out, "eng")]

\* Variant: an AC engine chain is left out without a word.
ElecEnd_ACIgnored(S, el, nn) ==
    IF S.err # NoErr THEN S
    ELSE IF IsNone(S.elec_load_input)
    THEN Raise(S, "RuntimeError", "Cannot connect electric load!")
    ELSE [S EXCEPT !.G =
             create_output_sum(
                 create_output_sum(
                     create_output_sum(
                         Connect(S.G, P("mech", 0, "", ELECTRIC_POWER_OUTPUT), S.elec_load_input),
                         "elec", 0, FUEL_FLOW_OUTPUT, S.fuel_flow_outputs, nn),
                     "elec", 0, WEIGHT_OUTPUT, S.weight_outputs, 1),
                 "elec", 0, SOC_OUTPUT, S.soc_outputs, nn)]

\* Lines 256-268: AC chains, the electric load and the output sums.
ElecEnd(S, el, nn) ==
    IF S.err # NoErr THEN S
    ELSE IF ~IsNone(el.engines_ac)
    THEN Raise(S, "NotImplementedError", "AC architectures not implemented yet!")
    ELSE IF IsNone(S.elec_load_input)
    THEN Raise(S, "RuntimeError", "Cannot connect electric load!")
    ELSE LET G1 == Connect(S.G, P("mech", 0, "", ELECTRIC_POWER_OUTPUT), S.elec_load_input)
             G2 == create_output_sum(G1, "elec", 0, FUEL_FLOW_OUTPUT, S.fuel_flow_outputs, nn)
             G3 == create_output_sum(G2, "elec", 0, WEIGHT_OUTPUT, S.weight_outputs, 1)
             G4 == create_output_sum(G3, "elec", 0, SOC_OUTPUT, S.soc_outputs, nn)
         IN  [S EXCEPT !.G = G4]

\* An exception raised by one block ends the builder: the blocks after it
\* leave the state as it is.
create_electric_group(G, el, nn) ==
    ElecEnd(
        EngineChainPart(
            BatteriesPart(
                BatteriesListCheck(ElecSplitterPart(ElecBegin(G, el, nn), el, nn), el),
                el, nn),
            el, nn),
        el, nn)

(***************************************************************************)
(* arch_group.py: DynamicPropulsionArchitecture.setup, one action per      *)
(* builder call and per iteration of the loop over the lanes.              *)
(***************************************************************************)
TopEmptyLists ==
    [thrust_groups |-> <<>>, subsys_groups |-> <<>>, weight_outputs |-> <<>>,
     thrust_outputs |-> <<>>, fuel_flow_outputs |-> <<>>, soc_outputs |-> <<>>,
     electric_power_gen_needed |-> FALSE]

\* Lines 85-95: the input collector of the architecture group.
TopInputs(G, a) ==
    collect_inputs(G, "top", 0, "in_collect",
        (RPM_INPUT :> a.thrust.propellers[1].default_rpm)
        @@ (THROTTLE_INPUT :> One) @@ (DURATION_INPUT :> One)
        @@ (ACTIVE_INPUT :> One) @@ (FLTCOND_RHO_INPUT :> One)
        @@ (FLTCOND_TAS_INPUT :> One))

\* Lines 82-102: the inputs of the architecture group.
SetupInputs ==
    /\ pc = "start"
    /\ graph' = TopInputs(graph, arch)
    /\ order' = <<Comp("top", 0, "in_collect")>>
    /\ pc' = "thrust"
    /\ UNCHANGED <<hist, arch, input, lane, top, mech, err>>

\* Lines 104-109: the thrust generation groups.
CreateThrustGroups ==
    /\ pc = "thrust"
    /\ LET r == create_thrust_groups(graph, arch.thrust, NumNodes)
       IN  /\ graph' = r.G
           /\ err' = r.err
           /\ pc' = IF r.err = NoErr THEN "mech" ELSE "error"
           /\ top' = [top EXCEPT
                  !.thrust_groups = r.groups,
                  !.subsys_groups = [j \in 1..Len(r.groups) |-> Comp("thrust", r.groups[j], "")],
                  !.weight_outputs = [j \in 1..Len(r.groups) |->
                                         P("thrust", r.groups[j], "", WEIGHT_OUTPUT)],
                  !.thrust_outputs = [j \in 1..Len(r.groups) |->
                                         P("thrust", r.groups[j], "", THRUST_OUTPUT)]]
    /\ UNCHANGED <<hist, arch, input, lane, mech, order>>

\* Variant: the broadcast lists are stored back into the spec.
MechBegin_StoreBroadcast ==
    /\ pc = "mech"
    /\ graph' = MechGroupInputs(graph)
    /\ mech' = MechEmptyLists
    /\ lane' = 0
    /\ pc' = "mech_loop"
    /\ arch' = [arch EXCEPT !.mech =
           [engines |-> List(Broadcast(arch.mech.engines, Len(top.thrust_groups))),
            motors |-> List(Broadcast(arch.mech.motors, Len(top.thrust_groups))),
            inverters |-> List(Broadcast(arch.mech.inverters, Len(top.thrust_groups))),
            mech_buses |-> List(Broadcast(arch.mech.mech_buses, Len(top.thrust_groups))),
            mech_splitters |-> List(Broadcast(arch.mech.mech_splitters, Len(top.thrust_groups)))]]
    /\ UNCHANGED <<hist, input, top, order, err>>

\* mech.py lines 124-158: create_mech_group up to the loop over the lanes.
MechBegin ==
    /\ pc = "mech"
    /\ graph' = MechGroupInputs(graph)
    /\ mech' = MechEmptyLists
    /\ lane' = 0
    /\ pc' = "mech_loop"
    /\ UNCHANGED <<hist, arch, input, top, order, err>>

\* The loop goes on with the next lane unless the iteration raised.
LaneDone(S) ==
    /\ graph' = S.G
    /\ mech' = S.M
    /\ err' = S.err
    /\ pc' = IF S.err = NoErr THEN "mech_loop" ELSE "error"
    /\ lane' = IF S.err = NoErr THEN lane + 1 ELSE lane

\* mech.py lines 159-458: one iteration of the loop over the thrust groups.
MechLaneStep ==
    /\ pc = "mech_loop"
    /\ lane < Len(top.thrust_groups)
    /\ LaneDone(MechLane(graph, mech, LaneSpec(arch.mech, Len(top.thrust_groups), lane),
                         top.thrust_groups[lane + 1], lane, NumNodes))
    /\ UNCHANGED <<hist, arch, input, top, order>>

\* Variant: the thrust groups are ordered before the mech group.
MechEnd_ThrustFirst ==
    /\ pc = "mech_loop"
    /\ lane = Len(top.thrust_groups)
    /\ graph' = MechOutputSums(graph, mech, NumNodes)
    /\ top' = [top EXCEPT
           !.subsys_groups = Append(@, Comp("mech", 0, "")),
           !.fuel_flow_outputs = Append(@, P("mech", 0, "", FUEL_FLOW_OUTPUT)),
           !.weight_outputs = Append(@, P("mech", 0, "", WEIGHT_OUTPUT)),
           !.electric_power_gen_needed = ElectricPowerNeeded(mech)]
    /\ order' = order \o [j \in 1..Len(top.thrust_groups) |->
                              Comp("thrust", top.thrust_groups[j], "")]
                      \o <<Comp("mech", 0, "")>>
    /\ pc' = IF ElectricPowerNeeded(mech) THEN "elec" ELSE "connect"
    /\ UNCHANGED <<hist, arch, input, lane, mech, err>>

\* mech.py lines 460-468 and arch_group.py lines 112-122: the mech group's
\* output sums, and whether the electrical group is needed.
MechEnd ==
    /\ pc = "mech_loop"
    /\ lane = Len(top.thrust_groups)
    /\ graph' = MechOutputSums(graph, mech, NumNodes)
    /\ top' = [top EXCEPT
           !.subsys_groups = Append(@, Comp("mech", 0, "")),
           !.fuel_flow_outputs = Append(@, P("mech", 0, "", FUEL_FLOW_OUTPUT)),
           !.weight_outputs = Append(@, P("mech", 0, "", WEIGHT_OUTPUT)),
           !.electric_power_gen_needed = ElectricPowerNeeded(mech)]
    /\ order' = order \o <<Comp("mech", 0, "")>>
                      \o [j \in 1..Len(top.thrust_groups) |->
                              Comp("thrust", top.thrust_groups[j], "")]
    /\ pc' = IF ElectricPowerNeeded(mech) THEN "elec" ELSE "connect"
    /\ UNCHANGED <<hist, arch, input, lane, mech, err>>

\* arch_group.py lines 126-133: the group joins the subsystems and the sums.
ElecDone(S) ==
    /\ graph' = S.G
    /\ err' = S.err
    /\ pc' = IF S.err = NoErr THEN "connect" ELSE "error"
    /\ top' = IF S.err # NoErr THEN top
              ELSE [top EXCEPT
                      !.subsys_groups = Append(@, Comp("elec", 0, "")),
                      !.fuel_flow_outputs = Append(@, P("elec", 0, "", FUEL_FLOW_OUTPUT)),
                      !.weight_outputs = Append(@, P("elec", 0, "", WEIGHT_OUTPUT)),
                      !.soc_outputs = Append(@, P("elec", 0, "", SOC_OUTPUT))]
    /\ order' = IF S.err # NoErr THEN order ELSE Append(order, Comp("elec", 0, ""))

\* Variant: without an electrical spec the electrical group is left out.
CreateElectricGroup_Optional ==
    /\ pc = "elec"
    /\ IF IsNone(arch.electric)
       THEN /\ pc' = "connect"
            /\ UNCHANGED <<graph, top, order, err>>
       ELSE ElecDone(create_electric_group(graph, arch.electric, NumNodes))
    /\ UNCHANGED <<hist, arch, input, lane, mech>>

\* arch_group.py lines 122-133: the electrical power generation group.
CreateElectricGroup ==
    /\ pc = "elec"
    /\ IF IsNone(arch.electric)
       THEN /\ err' = Exception("RuntimeError",
                         "Electrical power generation is needed but no ElectricPowerElements")
            /\ pc' = "error"
            /\ UNCHANGED <<graph, top, order>>
       ELSE ElecDone(create_electric_group(graph, arch.electric, NumNodes))
    /\ UNCHANGED <<hist, arch, input, lane, mech>>

\* "_connect_input": the input of the architecture group into each group.
ConnectInput(G, input_name, groups) ==
    ConnectAll(G, [j \in 1..Len(groups) |->
                     <<P("top", 0, "", Pass(input_name)),
                       P(groups[j].g, groups[j].i, "", input_name)>>])

\* arch_group.py lines 135-157: inputs, summed outputs and execution order.
ConnectAndSum ==
    /\ pc = "connect"
    /\ LET thrust_groups == [j \in 1..Len(top.thrust_groups) |->
                                Comp("thrust", top.thrust_groups[j], "")]
           G1 == ConnectInput(graph, RPM_INPUT, thrust_groups)
           G2 == ConnectInput(G1, THROTTLE_INPUT, <<Comp("mech", 0, "")>>)
           G3 == ConnectInput(G2, ACTIVE_INPUT, <<Comp("mech", 0, "")>>)
           G4 == ConnectInput(G3, DURATION_INPUT, top.subsys_groups)
           G5 == ConnectInput(G4, FLTCOND_RHO_INPUT, top.subsys_groups)
           G6 == ConnectInput(G5, FLTCOND_TAS_INPUT, top.subsys_groups)
           G7 == create_output_sum(G6, "top", 0, "fuel_flow", top.fuel_flow_outputs, NumNodes)
           G8 == create_output_sum(G7, "top", 0, "propulsion_system_weight",
                                   top.weight_outputs, 1)
           G9 == create_output_sum(G8, "top", 0, "thrust", top.thrust_outputs, NumNodes)
           G10 == create_output_sum(G9, "top", 0, "SOC", top.soc_outputs, NumNodes)
       IN  graph' = G10
    /\ order' = order \o <<Comp("top", 0, SumName("fuel_flow")),
                           Comp("top", 0, SumName("propulsion_system_weight")),
                           Comp("top", 0, SumName("thrust")),
                           Comp("top", 0, SumName("SOC"))>>
    /\ pc' = "done"
    /\ UNCHANGED <<hist, arch, input, lane, top, mech, err>>

Next ==
    \/ SetupInputs
    \/ CreateThrustGroups
    \/ MechBegin
    \/ MechLaneStep
    \/ MechEnd
    \/ CreateElectricGroup
    \/ ConnectAndSum

(***************************************************************************)
(* The architectures and inputs the model is checked for.                  *)
(***************************************************************************)
EngRating == <<4, 1>>
MotRating == <<2, 1>>
ChainRating == <<6, 1>>
MechDoH == <<1, 4>>
ElecDoHs == {<<3, 5>>}
DefaultRpm == <<2, 1>>

Opt(x) == {None, x}

\* Every combination of the five optional elements of a lane.
LaneCombos ==
    [engine : Opt(Engine(EngRating)), motor : Opt(Motor(MotRating)),
     inverter : Opt(Inverter), mech_bus : Opt(MechBus),
     mech_splitter : Opt(MechSplitter(MechDoH))]

LaneOf(e, m, inv, hyb) ==
    [engine |-> IF e THEN Engine(EngRating) ELSE None,
     motor |-> IF m THEN Motor(MotRating) ELSE None,
     inverter |-> IF inv THEN Inverter ELSE None,
     mech_bus |-> IF hyb THEN MechBus ELSE None,
     mech_splitter |-> IF hyb THEN MechSplitter(MechDoH) ELSE None]

\* The lane shapes the builder is written for, and a lane with no source.
EngineOnly == LaneOf(TRUE, FALSE, FALSE, FALSE)
MotorOnly == LaneOf(FALSE, TRUE, FALSE, FALSE)
MotorInverter == LaneOf(FALSE, TRUE, TRUE, FALSE)
Hybrid == LaneOf(TRUE, TRUE, FALSE, TRUE)
HybridInverter == LaneOf(TRUE, TRUE, TRUE, TRUE)
NoSource == LaneOf(FALSE, FALSE, FALSE, FALSE)
LaneShapes == {EngineOnly, MotorOnly, MotorInverter, Hybrid, HybridInverter, NoSource}

MechOf(f) ==
    [engines |-> List([j \in DOMAIN f |-> f[j].engine]),
     motors |-> List([j \in DOMAIN f |-> f[j].motor]),
     inverters |-> List([j \in DOMAIN f |-> f[j].inverter]),
     mech_buses |-> List([j \in DOMAIN f |-> f[j].mech_bus]),
     mech_splitters |-> List([j \in DOMAIN f |-> f[j].mech_splitter])]

ThrustOf(n, withGearboxes) ==
    [propellers |-> [j \in 1..n |-> Propeller(DefaultRpm)],
     gearboxes |-> IF withGearboxes THEN List([j \in 1..n |-> Gearbox]) ELSE None]

ElecSpecs ==
    UNION {[dc_bus : Opt(DCBus), splitter : Opt(ElecSplitter(d)),
            batteries : {None, Batteries, List(<<>>), List(<<Batteries>>),
                         List(<<Batteries, Batteries>>)},
            engines_dc : Opt(DCEngineChain(ChainRating)),
            engines_ac : Opt(ACEngineChain(ChainRating))] : d \in ElecDoHs}

PureBattery(withBus) ==
    [dc_bus |-> IF withBus THEN DCBus ELSE None, splitter |-> None, batteries |-> Batteries,
     engines_dc |-> None, engines_ac |-> None]
SeriesHybrid(d) ==
    [dc_bus |-> DCBus, splitter |-> ElecSplitter(d), batteries |-> Batteries,
     engines_dc |-> DCEngineChain(ChainRating), engines_ac |-> None]
Turboelectric(withBus) ==
    [dc_bus |-> IF withBus THEN DCBus ELSE None, splitter |-> None, batteries |-> None,
     engines_dc |-> DCEngineChain(ChainRating), engines_ac |-> None]

PropSysArch(thrust, m, electric) == [thrust |-> thrust, mech |-> m, electric |-> electric]

\* Lanes given as lists: one lane takes every combination of the five
\* elements, the other lanes are engine-only or motor-only; with no or a
\* sound electrical spec.
LaneLists(n) ==
    {f \in [1..n -> LaneCombos] :
        \E p \in 1..n : \A j \in (1..n) \ {p} : f[j] \in {EngineOnly, MotorOnly}}

ArchsMech ==
    UNION {{PropSysArch(ThrustOf(n, FALSE), MechOf(f), e) :
               f \in LaneLists(n), e \in {None, PureBattery(TRUE)}} :
           n \in 1..MaxLanes}

\* Lanes given as single elements, broadcast to every lane.
MechAll(sh) ==
    [engines |-> sh.engine, motors |-> sh.motor, inverters |-> sh.inverter,
     mech_buses |-> sh.mech_bus, mech_splitters |-> sh.mech_splitter]

\* A gearbox list one short of the propellers.
ThrustShort(n) ==
    [propellers |-> [j \in 1..n |-> Propeller(DefaultRpm)],
     gearboxes |-> List([j \in 1..(n - 1) |-> Gearbox])]

\* The lane shapes, with every combination of electrical elements.
ArchsElec ==
    UNION {{PropSysArch(th, MechAll(sh), e) :
               th \in {ThrustOf(n, FALSE), ThrustOf(n, TRUE), ThrustShort(n)},
               sh \in LaneShapes, e \in {None} \cup ElecSpecs} :
           n \in 1..MaxLanes}

AllActive == [k \in Nodes |-> One]
DefaultInput == [throttle |-> AllActive, propulsor_active |-> AllActive]

\* Nothing assembled from the spec yet but the assembly about to start.
NewHist(a) == [arch |-> a, runs |-> 1, outcome |-> None]

InitWith(archs, inputs) ==
    /\ arch \in archs
    /\ input \in inputs
    /\ pc = "start"
    /\ lane = 0
    /\ graph = EmptyGraph
    /\ top = TopEmptyLists
    /\ mech = MechEmptyLists
    /\ order = <<>>
    /\ err = NoErr
    /\ hist = NewHist(arch)

Init == InitWith(ArchsMech \cup ArchsElec, {DefaultInput})

Spec == Init /\ [][Next]_vars

(***************************************************************************)
(* A second specification for the numerical claims: accepted lane shapes   *)
(* with a sound electrical spec, under varying throttle and                *)
(* propulsor_active vectors.                                               *)
(***************************************************************************)
AllZero == [k \in Nodes |-> Zero]

\* Throttle at 1, at 1/2, or at 1/2 at the first analysis point only;
\* propulsor_active all 1, all 0, or 0 at the first analysis point only.
InputsNum ==
    [throttle : {AllActive, [k \in Nodes |-> <<1, 2>>],
                 [k \in Nodes |-> IF k = 1 THEN <<1, 2>> ELSE One]},
     propulsor_active : {AllActive, AllZero, [k \in Nodes |-> IF k = 1 THEN Zero ELSE One]}]

NumShapes == {EngineOnly, MotorOnly, MotorInverter, Hybrid}

ArchsNum ==
    UNION {{PropSysArch(ThrustOf(n, e.withGearboxes), MechOf(f), e.electric) :
               f \in [1..n -> NumShapes],
               e \in {[withGearboxes |-> FALSE, electric |-> PureBattery(TRUE)],
                      [withGearboxes |-> TRUE, electric |-> SeriesHybrid(<<3, 5>>)],
                      [withGearboxes |-> TRUE, electric |-> SeriesHybrid(<<1, 4>>)]}} :
           n \in 1..MaxLanes}

InitNum == InitWith(ArchsNum, InputsNum)

SpecNum == InitNum /\ [][Next]_vars

(***************************************************************************)
(* Shared vocabulary of the properties.                                    *)
(***************************************************************************)
NLanes == Len(arch.thrust.propellers)
Lanes == 0..(NLanes - 1)
SpecOfLane(j) == LaneSpec(arch.mech, NLanes, j)
HasMotor == \E j \in Lanes : ~IsNone(SpecOfLane(j).motor)
InGraph(g, i, c) == Comp(g, i, c) \in DOMAIN graph.subs
ElecInstantiated == InGraph("elec", 0, "")
\* The electrical builder has run (and returned or raised).
ElecBuilt == top.electric_power_gen_needed /\ pc \in {"connect", "done", "error"}
Balances(g) == {id \in DOMAIN graph.subs : id.g = g /\ graph.subs[id].kind = "BalanceComp"}

ElecMessages ==
    {"Electrical power generation is needed but no ElectricPowerElements",
     "dc_bus is required with a splitter",
     "both engines and batteries are required with splitter",
     "for one Battery pack, use batteries=Batteries(..)",
     "multiple battery pack design is not implemented",
     "Battery pack list cannot be empty",
     "motors AC power load should not be connected directly to Battery",
     "eng_chain_req_power_out",
     "AC architectures not implemented yet!",
     "Cannot connect electric load!"}

(***************************************************************************)
(* C1: the electrical group is in the graph only if some lane has a motor, *)
(* and once the mechanical layer is assembled and setup() has gone past    *)
(* the electrical stage it is in the graph if some lane has a motor.  With *)
(* no motor on any lane, no exception of the electrical stage is raised    *)
(* whatever electrical spec was supplied, and the assembled top-level SOC  *)
(* output is a constant of length num_nodes that is zero at every point.   *)
(***************************************************************************)
C1_ElecIffMotor ==
    /\ ElecInstantiated => HasMotor
    /\ (pc \in {"connect", "done"} /\ HasMotor) => ElecInstantiated
    /\ ~HasMotor => err.msg \notin ElecMessages /\ pc # "elec"
    /\ (pc = "done" /\ ~HasMotor) =>
          /\ InGraph("top", 0, SumName(SOC_OUTPUT))
          /\ graph.subs[Comp("top", 0, SumName(SOC_OUTPUT))].kind = "IndepVarComp"
          /\ graph.subs[Comp("top", 0, SumName(SOC_OUTPUT))].opt.n = NumNodes
          /\ \A k \in Nodes : Val(graph, input, P("top", 0, "", SOC_OUTPUT), k) = Zero

\* A motorless architecture assembled although its electrical spec has a
\* splitter and no DC bus.
C1_Witness ==
    /\ pc = "done"
    /\ ~HasMotor
    /\ ~IsNone(arch.electric)
    /\ ~IsNone(arch.electric.splitter)
    /\ IsNone(arch.electric.dc_bus)
    /\ ~ElecInstantiated
    /\ Val(graph, input, P("top", 0, "", SOC_OUTPUT), NumNodes) = Zero

(***************************************************************************)
(* C2: in an architecture that needs the electrical layer, a splitter      *)
(* without a DC bus, or batteries given as a list of length 1, ends        *)
(* setup() with a RuntimeError of the electrical builder; when it is       *)
(* raised the graph holds no battery and no engine-chain element.          *)
(* (The thrust groups, the mechanical group and the electrical group with  *)
(* its input collector are in the graph by then.)                          *)
(***************************************************************************)
C2Case ==
    /\ ElecBuilt
    /\ ~IsNone(arch.electric)
    /\ \/ ~IsNone(arch.electric.splitter) /\ IsNone(arch.electric.dc_bus)
       \/ IsList(arch.electric.batteries) /\ Len(arch.electric.batteries.items) = 1

NoBatteryNoChain ==
    \A c \in {"bat", "bat_in_collect", "eng", "eng_in_collect", "gen", "rect"} :
        ~InGraph("elec", 0, c)

C2_ConfigError ==
    C2Case =>
        /\ pc = "error"
        /\ err.kind = "RuntimeError"
        /\ err.msg \in ElecMessages
        /\ NoBatteryNoChain

\* The claim as stated: nothing has been added to the graph when the error
\* is raised.
C2_NothingAdded ==
    C2Case => pc = "error" /\ graph = EmptyGraph

\* Batteries as a list of length 1, behind a DC bus: the error is raised
\* with the bus already in the graph.
C2_Witness ==
    /\ C2Case
    /\ pc = "error"
    /\ err.msg = "for one Battery pack, use batteries=Batteries(..)"
    /\ InGraph("elec", 0, "bus")
    /\ InGraph("elec", 0, "elec_in_collect")

(***************************************************************************)
(* Per-lane quantities of the assembled graph under the inputs X.          *)
(***************************************************************************)
LaneShaftPower(X, j, k) == ValInput(graph, X, P("thrust", j, "", SHAFT_POWER_INPUT), k)
LaneThrust(X, j, k) == Val(graph, X, P("thrust", j, "", THRUST_OUTPUT), k)
LaneLoadPorts(j) == {p \in Range(mech.electric_load_outputs) : p.i = j}
LaneLoad(X, j, k) ==
    IF LaneLoadPorts(j) = {} THEN Zero
    ELSE Val(graph, X, CHOOSE p \in LaneLoadPorts(j) : TRUE, k)
AllOn == [input EXCEPT !.propulsor_active = AllActive]
IsHybridLane(sp) == ~IsNone(sp.engine) /\ ~IsNone(sp.motor)

\* Every lane but the second delivers what it delivers with all
\* propulsors active.
HealthyLanesUnaffected ==
    \A j \in Lanes \ {1} : \A k \in Nodes :
        /\ LaneShaftPower(input, j, k) = LaneShaftPower(AllOn, j, k)
        /\ LaneLoad(input, j, k) = LaneLoad(AllOn, j, k)
        /\ LaneThrust(input, j, k) = LaneThrust(AllOn, j, k)

MechMessages ==
    {"Either engine or motor should be present",
     "mech_buses and mech_splitters must be provided",
     "Inverter is added but no Motor!",
     "No shaft power generated"}

Resolves(sp) ==
    \/ ~IsNone(sp.engine) /\ IsNone(sp.motor) /\ IsNone(sp.inverter)
    \/ IsNone(sp.engine) /\ ~IsNone(sp.motor)
    \/ /\ ~IsNone(sp.engine) /\ ~IsNone(sp.motor)
       /\ ~IsNone(sp.mech_bus) /\ ~IsNone(sp.mech_splitter)

\* One of the three shapes and nothing besides.
ResolvesStrictly(sp) ==
    /\ Resolves(sp)
    /\ ~IsHybridLane(sp) => IsNone(sp.mech_bus) /\ IsNone(sp.mech_splitter)

LaneHoldsItsShape(j) ==
    LET sp == SpecOfLane(j)
    IN  /\ InGraph("lane", j, "eng") <=> ~IsNone(sp.engine)
        /\ InGraph("lane", j, "mot") <=> ~IsNone(sp.motor)
        /\ InGraph("lane", j, "inv") <=> ~IsNone(sp.inverter)
        /\ InGraph("lane", j, "bus") <=> IsHybridLane(sp)
        /\ InGraph("lane", j, "split") <=> IsHybridLane(sp)

C4_LaneShapes ==
    /\ \A j \in 0..(lane - 1) : Resolves(SpecOfLane(j)) /\ LaneHoldsItsShape(j)
    /\ (pc = "error" /\ err.msg \in MechMessages) =>
          /\ err.kind = "RuntimeError"
          /\ ~Resolves(SpecOfLane(lane))

\* The claim as stated: no combination outside the three shapes is accepted.
C4_ThreeShapesOnly ==
    \A j \in 0..(lane - 1) : ResolvesStrictly(SpecOfLane(j))

\* An engine-only lane given a mechanical bus, assembled without the bus.
C4_Witness ==
    /\ pc = "done"
    /\ ~IsNone(SpecOfLane(0).engine)
    /\ IsNone(SpecOfLane(0).motor)
    /\ ~IsNone(SpecOfLane(0).mech_bus)
    /\ InGraph("lane", 0, "eng")
    /\ ~InGraph("lane", 0, "bus")

(***************************************************************************)
(* C5: when the electrical spec has a splitter and the DC bus, the         *)
(* batteries or the DC engine chain is absent, the electrical builder      *)
(* raises a RuntimeError before it adds the splitter, a battery or an      *)
(* engine chain; a DC bus that was supplied is in the graph by then.       *)
(***************************************************************************)
C5Case ==
    /\ ElecBuilt
    /\ ~IsNone(arch.electric)
    /\ ~IsNone(arch.electric.splitter)
    /\ \/ IsNone(arch.electric.dc_bus)
       \/ IsNone(arch.electric.batteries)
       \/ IsNone(arch.electric.engines_dc)

NoSplitter == ~InGraph("elec", 0, "split") /\ ~InGraph("elec", 0, "splitter_in_collect")

C5_SplitterNeedsAll ==
    C5Case =>
        /\ pc = "error"
        /\ err.kind = "RuntimeError"
        /\ err.msg \in {"dc_bus is required with a splitter",
                        "both engines and batteries are required with splitter"}
        /\ NoSplitter
        /\ NoBatteryNoChain
        /\ InGraph("elec", 0, "bus") <=> ~IsNone(arch.electric.dc_bus)

\* The claim as stated: no electrical element at all is in the graph.
C5_NoElementAdded ==
    C5Case =>
        /\ pc = "error"
        /\ ~InGraph("elec", 0, "bus")
        /\ NoSplitter
        /\ NoBatteryNoChain

\* Splitter and bus without batteries: the error comes with the bus added.
C5_Witness ==
    /\ C5Case
    /\ pc = "error"
    /\ IsNone(arch.electric.batteries)
    /\ err.msg = "both engines and batteries are required with splitter"
    /\ InGraph("elec", 0, "bus")

(***************************************************************************)
(* C6: a turboelectric electrical spec (DC engine chain, no batteries, no  *)
(* splitter) assembles without error and yields exactly one balance,       *)
(* whose required power is the whole electrical load and whose unknown is  *)
(* the throttle of the chain's engine.                                     *)
(***************************************************************************)
IsTurboelectric(el) ==
    /\ ~IsNone(el)
    /\ ~IsNone(el.engines_dc)
    /\ IsNone(el.batteries)
    /\ IsNone(el.splitter)
    /\ IsNone(el.engines_ac)

C6_Turboelectric ==
    (ElecBuilt /\ IsTurboelectric(arch.electric) /\ ~IsNone(arch.electric.dc_bus)) =>
        /\ pc # "error"
        /\ Balances("elec") = {Comp("elec", 0, "eng_throttle_set")}
        /\ Drivers(graph, P("elec", 0, "eng_throttle_set", "power_required")) =
               {P("elec", 0, "bus", "elec_power_in")}
        /\ Drivers(graph, P("elec", 0, "eng", "throttle")) =
               {P("elec", 0, "eng_throttle_set", "throttle")}

(***************************************************************************)
(* C7: a pure-battery electrical spec (batteries, no engine chain, no      *)
(* splitter) assembles without error with and without a DC bus; the        *)
(* electrical load of the mechanical layer drives the battery's load       *)
(* input, directly without a bus and through the bus otherwise; there is   *)
(* no balance.                                                             *)
(***************************************************************************)
IsPureBattery(el) ==
    /\ ~IsNone(el)
    /\ ~IsNone(el.batteries)
    /\ ~IsList(el.batteries)
    /\ IsNone(el.engines_dc)
    /\ IsNone(el.splitter)
    /\ IsNone(el.engines_ac)

MechLoad == P("mech", 0, "", ELECTRIC_POWER_OUTPUT)

C7_PureBattery ==
    (ElecBuilt /\ IsPureBattery(arch.electric)) =>
        /\ pc # "error"
        /\ Balances("elec") = {}
        /\ IF IsNone(arch.electric.dc_bus)
           THEN Drivers(graph, P("elec", 0, "bat", "elec_load")) = {MechLoad}
           ELSE /\ Drivers(graph, P("elec", 0, "bat", "elec_load")) =
                       {P("elec", 0, "bus", "elec_power_in")}
                /\ Drivers(graph, P("elec", 0, "bus", "elec_power_out")) = {MechLoad}

(***************************************************************************)
(* C8: in an assembled series hybrid (bus, splitter, batteries, DC engine  *)
(* chain) with hybridisation fraction d and bus demand L (the power the    *)
(* bus draws), at every analysis point the battery load is d x L, driven   *)
(* by the splitter and by no balance; the power required of the engine     *)
(* chain is (1 - d) x L; the electrical group has one balance, whose       *)
(* unknown is the throttle of the chain's engine, and the rectifier        *)
(* delivers the required power.                                            *)
(***************************************************************************)
BusDemand(k) == Val(graph, input, P("elec", 0, "bus", "elec_power_in"), k)

C8_SeriesHybrid ==
    (pc = "done" /\ HasMotor /\ ~IsNone(arch.electric.splitter)) =>
        LET d == arch.electric.splitter.elec_DoH
        IN  /\ Balances("elec") = {Comp("elec", 0, "eng_throttle_set")}
            /\ Drivers(graph, P("elec", 0, "bat", "elec_load")) =
                   {P("elec", 0, "split", "power_out_A")}
            /\ Drivers(graph, P("elec", 0, "eng", "throttle")) =
                   {P("elec", 0, "eng_throttle_set", "throttle")}
            /\ \A k \in Nodes :
                  LET L == BusDemand(k)
                  IN  /\ L = RDiv(Val(graph, input, MechLoad, k), DCBusEff)
                      /\ ValInput(graph, input, P("elec", 0, "bat", "elec_load"), k) =
                             RMul(d, L)
                      /\ ValInput(graph, input,
                                  P("elec", 0, "eng_throttle_set", "power_required"), k) =
                             RMul(RSub(One, d), L)
                      /\ Val(graph, input, P("elec", 0, "rect", "elec_power_out"), k) =
                             RMul(RSub(One, d), L)

\* A quarter of a non-zero demand on the battery, the rest on the chain.
C8_Witness ==
    /\ pc = "done"
    /\ HasMotor
    /\ ~IsNone(arch.electric.splitter)
    /\ arch.electric.splitter.elec_DoH = <<1, 4>>
    /\ BusDemand(1) # Zero
    /\ ValInput(graph, input, P("elec", 0, "bat", "elec_load"), 1) =
           RMul(<<1, 4>>, BusDemand(1))
    /\ Val(graph, input, P("elec", 0, "rect", "elec_power_out"), 1) =
           RMul(<<3, 4>>, BusDemand(1))

(***************************************************************************)
(* C9: for an assembled architecture of identical engine-only lanes, at    *)
(* every analysis point the total fuel flow and the total thrust are the   *)
(* value of one lane times the number of active lanes: all lanes where     *)
(* propulsor_active is 1, all but the second where it is 0.                *)
(***************************************************************************)
AllEngineOnly == \A j \in Lanes : SpecOfLane(j) = EngineOnly

ActiveLanes(k) ==
    IF NLanes >= 2 /\ input.propulsor_active[k] = Zero THEN NLanes - 1 ELSE NLanes

\* What one engine-only lane burns and delivers at point k.
SingleLaneFuelFlow(k) == RMul(RMul(input.throttle[k], EngRating), EngPsfc)
SingleLaneThrust(k) == LaneThrust(AllOn, 0, k)

C9_IdenticalLanes ==
    (pc = "done" /\ AllEngineOnly) =>
        \A k \in Nodes :
            /\ Val(graph, input, P("lane", 0, "eng", "fuel_flow"), k) = SingleLaneFuelFlow(k)
            /\ Val(graph, input, P("top", 0, "", "fuel_flow"), k) =
                   RMul(Whole(ActiveLanes(k)), SingleLaneFuelFlow(k))
            /\ Val(graph, input, P("top", 0, "", "thrust"), k) =
                   RMul(Whole(ActiveLanes(k)), SingleLaneThrust(k))

\* Two engine-only lanes, the second switched off.
C9_Witness ==
    /\ pc = "done"
    /\ AllEngineOnly
    /\ NLanes = 2
    /\ input.propulsor_active = AllZero
    /\ SingleLaneThrust(1) # Zero
    /\ Val(graph, input, P("top", 0, "", "fuel_flow"), 1) = SingleLaneFuelFlow(1)
    /\ Val(graph, AllOn, P("top", 0, "", "fuel_flow"), 1) =
           RMul(Whole(2), SingleLaneFuelFlow(1))

(***************************************************************************)
(* A specification that applies create_output_sum to lists of up to        *)
(* MaxSum outputs of the architecture's input collector.                   *)
(***************************************************************************)
MaxSum == 3

SumSources ==
    {P("top", 0, "", Pass(THROTTLE_INPUT)), P("top", 0, "", Pass(ACTIVE_INPUT)),
     P("top", 0, "", Pass(DURATION_INPUT))}

SumLists == UNION {[1..m -> SumSources] : m \in 0..MaxSum}

SumArch == PropSysArch(ThrustOf(1, FALSE), MechOf(<<EngineOnly>>), None)

InitSum ==
    /\ arch = SumArch
    /\ input \in InputsNum
    /\ pc = "sum"
    /\ lane = 0
    /\ graph = TopInputs(EmptyGraph, SumArch)
    /\ top \in {[TopEmptyLists EXCEPT !.thrust_outputs = l] : l \in SumLists}
    /\ mech = MechEmptyLists
    /\ order = <<>>
    /\ err = NoErr
    /\ hist = NewHist(arch)

\* create_output_sum(group, THRUST_OUTPUT, thrust_outputs, n=nn)
CreateOutputSum ==
    /\ pc = "sum"
    /\ graph' = create_output_sum(graph, "top", 0, THRUST_OUTPUT, top.thrust_outputs, NumNodes)
    /\ pc' = "summed"
    /\ UNCHANGED <<hist, arch, input, lane, top, mech, order, err>>

NextSum == CreateOutputSum

SpecSum == InitSum /\ [][NextSum]_vars

Perms(n) == {f \in [1..n -> 1..n] : \A a, b \in 1..n : f[a] = f[b] => a = b}

\* The output of the sum over the list l, built on the input collector.
SumOf(l, k) ==
    Val(create_output_sum(TopInputs(EmptyGraph, SumArch), "top", 0, THRUST_OUTPUT, l, NumNodes),
        input, P("top", 0, "", THRUST_OUTPUT), k)

(***************************************************************************)
(* C10: the component create_output_sum adds yields, for an empty list, a  *)
(* constant zero of the requested length; for one input, that input; for   *)
(* more inputs, each wired to its own port sum_input_<j> in the order      *)
(* given, their elementwise sum, which is the same for every ordering of   *)
(* the list (in exact arithmetic).                                         *)
(***************************************************************************)
C10_OutputSum ==
    pc = "summed" =>
        LET ins == top.thrust_outputs
            sum == Comp("top", 0, SumName(THRUST_OUTPUT))
            out(k) == Val(graph, input, P("top", 0, "", THRUST_OUTPUT), k)
        IN  /\ InGraph("top", 0, SumName(THRUST_OUTPUT))
            /\ graph.subs[sum].opt.n = NumNodes
            /\ Len(ins) = 0 =>
                  /\ graph.subs[sum].kind = "IndepVarComp"
                  /\ \A k \in Nodes : out(k) = Zero
            /\ Len(ins) = 1 => \A k \in Nodes : out(k) = Val(graph, input, ins[1], k)
            /\ \A j \in 1..Len(ins) :
                  Drivers(graph, SumInput("top", 0, SumName(THRUST_OUTPUT), j - 1)) = {ins[j]}
            /\ \A k \in Nodes :
                  out(k) = RSum([j \in 1..Len(ins) |-> Val(graph, input, ins[j], k)])
            /\ \A f \in Perms(Len(ins)) : \A k \in Nodes :
                  SumOf([j \in 1..Len(ins) |-> ins[f[j]]], k) = out(k)

\* Three different inputs summed.
C10_Witness ==
    /\ pc = "summed"
    /\ Len(top.thrust_outputs) = 3
    /\ Cardinality(Range(top.thrust_outputs)) = 3
    /\ input.throttle[1] = <<1, 2>>
    /\ input.propulsor_active[1] = One
    /\ Val(graph, input, P("top", 0, "", THRUST_OUTPUT), 1) = <<5, 2>>

(***************************************************************************)
(* The balances of the assembled graph.  Every component of the model      *)
(* delivers a power proportional to its throttle, so the available power   *)
(* of a balance is zero at throttle 0 and strictly increasing when its     *)
(* value at throttle 1 is positive.                                        *)
(***************************************************************************)
AllBalances == {id \in DOMAIN graph.subs : graph.subs[id].kind = "BalanceComp"}

\* The element whose throttle the balance b solves.
BalancedElement(b) == IF b.c = BalanceName("eng") THEN "eng" ELSE "mot"

PowerRequired(b, k) == ValInput(graph, input, P(b.g, b.i, b.c, "power_required"), k)
\* The available power at the solved throttle, and with the throttle at 1.
PowerAvailable(b, k) == ValInput(graph, input, P(b.g, b.i, b.c, "power_available"), k)
PowerAvailableAtOne(b, k) ==
    ValIn(graph, input, P(b.g, b.i, b.c, "power_available"), k, {b})
SolvedThrottle(b, k) == Val(graph, input, P(b.g, b.i, b.c, "throttle"), k)

RLess(a, b) == RLeq(a, b) /\ a # b

Balanceable(b, k) ==
    /\ RLess(Zero, PowerAvailableAtOne(b, k))
    /\ RLeq(Zero, PowerRequired(b, k))
    /\ RLeq(PowerRequired(b, k), PowerAvailableAtOne(b, k))

(***************************************************************************)
(* C11: in an assembled architecture, for every balance whose available    *)
(* power is strictly increasing in the throttle and whose required power   *)
(* lies between the available power at throttle 0 and at throttle 1, at    *)
(* every analysis point the available power at the solved throttle equals  *)
(* the required power, the solved throttle lies in [0, 1], and the         *)
(* throttle input of the balanced element is driven by the balance and     *)
(* carries the solved value.                                               *)
(***************************************************************************)
C11_BalanceSolved ==
    pc = "done" =>
        \A b \in AllBalances :
            /\ Drivers(graph, P(b.g, b.i, BalancedElement(b), "throttle")) =
                   {P(b.g, b.i, b.c, "throttle")}
            /\ \A k \in Nodes :
                  Balanceable(b, k) =>
                      /\ PowerAvailable(b, k) = PowerRequired(b, k)
                      /\ RLeq(Zero, SolvedThrottle(b, k))
                      /\ RLeq(SolvedThrottle(b, k), One)
                      /\ ValInput(graph, input,
                                  P(b.g, b.i, BalancedElement(b), "throttle"), k) =
                             SolvedThrottle(b, k)

\* The engine of a parallel-hybrid first lane at half throttle: its balance
\* settles strictly between 0 and 1.
C11_Witness ==
    /\ pc = "done"
    /\ SpecOfLane(0) = Hybrid
    /\ input.throttle[1] = <<1, 2>>
    /\ Balanceable(Comp("lane", 0, "eng_throttle_set"), 1)
    /\ PowerRequired(Comp("lane", 0, "eng_throttle_set"), 1) = <<9, 4>>
    /\ SolvedThrottle(Comp("lane", 0, "eng_throttle_set"), 1) = <<9, 16>>
    /\ PowerAvailable(Comp("lane", 0, "eng_throttle_set"), 1) = <<9, 4>>

(***************************************************************************)
(* A specification for the parallel-hybrid lanes: lanes that are           *)
(* engine-only or parallel hybrid, at a hybridisation fraction of 1/4 or   *)
(* 1/2, behind a battery on a DC bus, under throttle and propulsor_active  *)
(* vectors that are uniform or differ between the analysis points.         *)
(***************************************************************************)
HybridHalf == [Hybrid EXCEPT !.mech_splitter = MechSplitter(<<1, 2>>)]

HybShapes == {EngineOnly, Hybrid, HybridHalf}

ArchsHyb ==
    UNION {{PropSysArch(ThrustOf(n, FALSE), MechOf(f), PureBattery(TRUE)) :
               f \in [1..n -> HybShapes]} : n \in 1..MaxLanes}

InputsHyb ==
    [throttle : {AllActive, [k \in Nodes |-> <<1, 2>>],
                 [k \in Nodes |-> IF k = 1 THEN <<1, 2>> ELSE One]},
     propulsor_active : {AllActive, AllZero,
                         [k \in Nodes |-> IF k = 1 THEN Zero ELSE One],
                         [k \in Nodes |-> IF k = 1 THEN One ELSE Zero]}]

InitHyb == InitWith(ArchsHyb, InputsHyb)

SpecHyb == InitHyb /\ [][Next]_vars

\* Quantities of the parallel-hybrid lane j.
HybridLanes == {j \in Lanes : IsHybridLane(SpecOfLane(j))}
EngineRating(j) == SpecOfLane(j).engine.power_rating
MotorRating(j) == SpecOfLane(j).motor.power_rating
LaneDoH(j) == SpecOfLane(j).mech_splitter.mech_DoH
MotorRequired(j, k) == PowerRequired(Comp("lane", j, BalanceName("mot")), k)
EngineRequired(j, k) == PowerRequired(Comp("lane", j, BalanceName("eng")), k)

(***************************************************************************)
(* C12: in an assembled architecture running with all propulsors active,   *)
(* on every parallel-hybrid lane with hybridisation fraction h, engine     *)
(* rating E and motor rating M, at every analysis point with throttle t    *)
(* the power required of the motor is h x t x (E + M) and the power        *)
(* required of the engine is (1 - h) x t x (E + M).                        *)
(***************************************************************************)
C12_HybridSplit ==
    (pc = "done" /\ input.propulsor_active = AllActive) =>
        \A j \in HybridLanes : \A k \in Nodes :
            LET R == RAdd(EngineRating(j), MotorRating(j))
                t == input.throttle[k]
            IN  /\ MotorRequired(j, k) = RMul(LaneDoH(j), RMul(t, R))
                /\ EngineRequired(j, k) = RMul(RSub(One, LaneDoH(j)), RMul(t, R))

\* A second lane at h = 1/2 and full throttle: engine and motor are each
\* asked for half the combined rating; a first lane at h = 1/4 and half
\* throttle: the motor is asked for one eighth of it.
C12_Witness ==
    /\ pc = "done"
    /\ input.propulsor_active = AllActive
    /\ NLanes = 2
    /\ SpecOfLane(1) = HybridHalf
    /\ SpecOfLane(0) = Hybrid
    /\ input.throttle[1] = <<1, 2>>
    /\ input.throttle[2] = One
    /\ MotorRequired(1, 2) = RMul(<<1, 2>>, RAdd(EngRating, MotRating))
    /\ EngineRequired(1, 2) = RMul(<<1, 2>>, RAdd(EngRating, MotRating))
    /\ MotorRequired(0, 1) = RMul(<<1, 8>>, RAdd(EngRating, MotRating))

(***************************************************************************)
(* C13: whenever the electrical builder runs on a spec with more than one  *)
(* battery pack or with an AC engine chain, setup() ends with an           *)
(* exception and never completes.  The exception is the                    *)
(* NotImplementedError of the unimplemented feature unless a statement     *)
(* before its check raises first: the splitter checks (RuntimeError), for  *)
(* an AC chain also the battery-list checks (RuntimeError, ValueError),    *)
(* the battery without a DC bus (RuntimeWarning) and the DC engine chain   *)
(* without a splitter (UnboundLocalError).                                 *)
(***************************************************************************)
ManyBatteries(el) == IsList(el.batteries) /\ Len(el.batteries.items) > 1

C13Case ==
    /\ ElecBuilt
    /\ ~IsNone(arch.electric)
    /\ ManyBatteries(arch.electric) \/ ~IsNone(arch.electric.engines_ac)

\* The exception the statements of create_electric_group raise, in their order.
ExpectedElecError(el) ==
    IF ~IsNone(el.splitter) /\
       (IsNone(el.dc_bus) \/ IsNone(el.engines_dc) \/ IsNone(el.batteries))
    THEN "RuntimeError"
    ELSE IF ManyBatteries(el) THEN "NotImplementedError"
    ELSE IF IsList(el.batteries)
    THEN (IF Len(el.batteries.items) = 1 THEN "RuntimeError" ELSE "ValueError")
    ELSE IF ~IsNone(el.batteries) /\ IsNone(el.dc_bus) THEN "RuntimeWarning"
    ELSE IF ~IsNone(el.engines_dc) /\ IsNone(el.splitter) THEN "UnboundLocalError"
    ELSE "NotImplementedError"

C13_Unimplemented ==
    C13Case =>
        /\ pc = "error"
        /\ err.kind = ExpectedElecError(arch.electric)
        /\ (err.kind = "NotImplementedError") =>
               err.msg \in {"multiple battery pack design is not implemented",
                            "AC architectures not implemented yet!"}

\* The claim as stated: the unimplemented-feature error, whatever the other
\* fields of the electrical spec.
C13_AlwaysUnimplemented ==
    C13Case => pc = "error" /\ err.kind = "NotImplementedError"

\* An AC engine chain next to a battery on a DC bus: the error comes after
\* the battery was added.
C13_Witness ==
    /\ C13Case
    /\ pc = "error"
    /\ ~IsNone(arch.electric.engines_ac)
    /\ err = Exception("NotImplementedError", "AC architectures not implemented yet!")
    /\ InGraph("elec", 0, "bat")

(***************************************************************************)
(* C14: when some lane has a motor and the architecture has no electrical  *)
(* spec, setup() never gets to connecting inputs and summing outputs: it   *)
(* ends with a RuntimeError, and once the mechanical layer is assembled it *)
(* is the error saying that electrical power generation is needed.         *)
(***************************************************************************)
C14_MotorNeedsElectric ==
    (HasMotor /\ IsNone(arch.electric)) =>
        /\ pc \notin {"connect", "done"}
        /\ pc = "error" => err.kind = "RuntimeError"
        /\ (pc = "error" /\ top.electric_power_gen_needed) =>
               err.msg = "Electrical power generation is needed but no ElectricPowerElements"

\* Two motor lanes and no electrical spec: the error is raised with the
\* motors' summed electrical load in the graph and connected to nothing.
C14_Witness ==
    /\ HasMotor
    /\ IsNone(arch.electric)
    /\ NLanes = 2
    /\ pc = "error"
    /\ err.msg = "Electrical power generation is needed but no ElectricPowerElements"
    /\ InGraph("mech", 0, SumName(ELECTRIC_POWER_OUTPUT))
    /\ \A c \in graph.conns : c[1] # MechLoad
    /\ ~ElecInstantiated

(***************************************************************************)
(* The subsystems of the architecture group itself: its input collector,   *)
(* the thrust groups, the mech group (which holds the lane groups), the    *)
(* elec group and the output sums.                                         *)
(***************************************************************************)
TopLevelOf(id) ==
    IF id.g \in {"mech", "lane"} THEN Comp("mech", 0, "")
    ELSE IF id.g = "thrust" THEN Comp("thrust", id.i, "")
    ELSE IF id.g = "elec" THEN Comp("elec", 0, "")
    ELSE Comp(id.g, id.i, id.c)

TopLevelSubsystems == {TopLevelOf(id) : id \in DOMAIN graph.subs}

\* Position of a top-level subsystem in the order handed to set_order; 0
\* when it is not listed.
OrderPos(t) ==
    IF \E n \in 1..Len(order) : order[n] = t
    THEN CHOOSE n \in 1..Len(order) : order[n] = t
    ELSE 0

\* The connections between two different top-level subsystems.
TopLevelConns ==
    {<<TopLevelOf(CompOf(ResolveOut(graph, c[1]))), TopLevelOf(CompOf(ResolveIn(graph, c[2])))>> :
        c \in graph.conns} \ {<<t, t>> : t \in TopLevelSubsystems}

(***************************************************************************)
(* C15: the order setup() declares lists every subsystem of the            *)
(* architecture group exactly once, with the mech group before every       *)
(* thrust group and before the elec group, and every connection between    *)
(* two subsystems of the architecture group runs from one earlier in the   *)
(* order to one later in it.                                               *)
(***************************************************************************)
C15_ExecutionOrder ==
    pc = "done" =>
        /\ Range(order) = TopLevelSubsystems
        /\ Len(order) = Cardinality(TopLevelSubsystems)
        /\ \A t \in Range(order) :
              t.g \in {"thrust", "elec"} => OrderPos(Comp("mech", 0, "")) < OrderPos(t)
        /\ \A c \in TopLevelConns :
              /\ OrderPos(c[1]) > 0
              /\ OrderPos(c[1]) < OrderPos(c[2])

\* Two lanes with a motor: the mech group feeds both thrust groups and the
\* elec group, and all of them feed the sums.
C15_Witness ==
    /\ pc = "done"
    /\ NLanes = 2
    /\ ElecInstantiated
    /\ Len(order) = 9
    /\ order[2] = Comp("mech", 0, "")
    /\ <<Comp("mech", 0, ""), Comp("thrust", 1, "")>> \in TopLevelConns
    /\ <<Comp("mech", 0, ""), Comp("elec", 0, "")>> \in TopLevelConns
    /\ <<Comp("elec", 0, ""), Comp("top", 0, SumName(SOC_OUTPUT))>> \in TopLevelConns

(***************************************************************************)
(* A specification in which the caller assembles the same architecture     *)
(* spec again, up to MaxRuns times: a new DynamicPropulsionArchitecture    *)
(* is constructed around the spec object and set up from scratch, as       *)
(* ac_model.py does for every flight phase.                                *)
(***************************************************************************)
MaxRuns == 2

\* How an assembly ended.
Outcome == [nil |-> FALSE, pc |-> pc, graph |-> graph, order |-> order, err |-> err]

Restart ==
    /\ pc \in {"done", "error"}
    /\ hist.runs < MaxRuns
    /\ hist' = [hist EXCEPT !.runs = @ + 1,
                            !.outcome = IF IsNone(@) THEN Outcome ELSE @]
    /\ pc' = "start"
    /\ lane' = 0
    /\ graph' = EmptyGraph
    /\ top' = TopEmptyLists
    /\ mech' = MechEmptyLists
    /\ order' = <<>>
    /\ err' = NoErr
    /\ UNCHANGED <<arch, input>>

NextRe ==
    \/ Next
    \/ Restart

SpecRe == Init /\ [][NextRe]_vars

(***************************************************************************)
(* C16: at every point of every assembly, completed or aborted by an       *)
(* exception, the architecture spec with its layer and element specs       *)
(* equals the spec the caller built, and every assembly after the first    *)
(* ends as the first did: the same graph, the same order, the same         *)
(* exception if any.                                                       *)
(***************************************************************************)
C16_SpecsReadOnly ==
    /\ arch = hist.arch
    /\ (pc \in {"done", "error"} /\ ~IsNone(hist.outcome)) => Outcome = hist.outcome

\* A further assembly of a two-lane spec whose second lane has no power
\* source: aborted again, with the same partial graph.
C16_Witness ==
    /\ hist.runs = 2
    /\ ~IsNone(hist.outcome)
    /\ pc = "error"
    /\ NLanes = 2
    /\ lane = 1
    /\ err.msg = "Either engine or motor should be present"
    /\ InGraph("lane", 0, "")
    /\ graph = hist.outcome.graph
    /\ arch = hist.arch

(***************************************************************************)
(* A specification for the lanes with one power source: up to              *)
(* MaxLanes + 1 lanes, each engine-only or motor-only, behind a battery on *)
(* a DC bus.                                                               *)
(***************************************************************************)
ArchsSingle ==
    UNION {{PropSysArch(ThrustOf(n, FALSE), MechOf(f), PureBattery(TRUE)) :
               f \in [1..n -> {EngineOnly, MotorOnly}]} : n \in 1..(MaxLanes + 1)}

InitSingle == InitWith(ArchsSingle, InputsNum)

SpecSingle == InitSingle /\ [][Next]_vars

\* The power source of a lane with one source, and the component that
\* multiplies its throttle by propulsor_active.
SourceOf(j) == IF ~IsNone(SpecOfLane(j).engine) THEN "eng" ELSE "mot"
FailedOf(j) == IF ~IsNone(SpecOfLane(j).engine) THEN "failedengine" ELSE "failedmotor"
SourceThrottle(j, k) == ValInput(graph, input, P("lane", j, SourceOf(j), "throttle"), k)

(***************************************************************************)
(* C17: in an assembled architecture, on every engine-only or motor-only   *)
(* lane the throttle input of the source carries, at every analysis point, *)
(* throttle x propulsor_active on the second lane and the throttle itself  *)
(* on every other lane; the multiplying component exists on the second     *)
(* lane only.                                                              *)
(***************************************************************************)
C17_SecondLaneOnly ==
    pc = "done" =>
        \A j \in Lanes :
            ~IsHybridLane(SpecOfLane(j)) =>
                /\ InGraph("lane", j, FailedOf(j)) <=> j = 1
                /\ \A k \in Nodes :
                      SourceThrottle(j, k) =
                          IF j = 1 THEN RMul(input.throttle[k], input.propulsor_active[k])
                          ELSE input.throttle[k]

\* Three lanes with propulsor_active at 0: the second lane's motor is
\* throttled to 0, the first and the third run at the global throttle.
C17_Witness ==
    /\ pc = "done"
    /\ NLanes = 3
    /\ SpecOfLane(1) = MotorOnly
    /\ SpecOfLane(2) = EngineOnly
    /\ input.propulsor_active = AllZero
    /\ input.throttle[1] = <<1, 2>>
    /\ SourceThrottle(0, 1) = <<1, 2>>
    /\ SourceThrottle(1, 1) = Zero
    /\ SourceThrottle(2, 1) = <<1, 2>>
    /\ ~InGraph("lane", 2, "failedengine")

\* Signals of the parallel-hybrid lane j at analysis point k.
SplitFractionIn(j, k) == ValInput(graph, input, P("lane", j, "split", "power_split_fraction"), k)
CombinedRating(j, k) == Val(graph, input, P("lane", j, "sum_rated_power", "tot_rated_power"), k)
LaneDemand(j, k) == ValInput(graph, input, P("lane", j, "split", "power_in"), k)

(***************************************************************************)
(* C18: in an assembled architecture whose second lane is parallel hybrid, *)
(* with propulsor_active at 0 at every analysis point, at every point the  *)
(* split fraction reaching the splitter of that lane is 0, the power       *)
(* required of its motor is 0, its combined rated power is the engine's    *)
(* rating and the power required of its engine is throttle x engine        *)
(* rating.                                                                 *)
(***************************************************************************)
C18_SecondLaneInoperative ==
    (pc = "done" /\ 1 \in HybridLanes /\ input.propulsor_active = AllZero) =>
        \A k \in Nodes :
            /\ SplitFractionIn(1, k) = Zero
            /\ MotorRequired(1, k) = Zero
            /\ CombinedRating(1, k) = EngineRating(1)
            /\ EngineRequired(1, k) = RMul(input.throttle[k], EngineRating(1))

\* A second lane of hybridisation fraction 1/2 at half throttle with the
\* flag at 0: the engine alone is asked for half its rating.
C18_Witness ==
    /\ pc = "done"
    /\ 1 \in HybridLanes
    /\ LaneDoH(1) = <<1, 2>>
    /\ input.propulsor_active = AllZero
    /\ input.throttle[1] = <<1, 2>>
    /\ SplitFractionIn(1, 1) = Zero
    /\ MotorRequired(1, 1) = Zero
    /\ EngineRequired(1, 1) = RMul(<<1, 2>>, EngineRating(1))
    /\ EngineRequired(1, 1) # Zero

(***************************************************************************)
(* C19: in an assembled architecture whose second lane is parallel hybrid, *)
(* for every 0/1 propulsor_active vector and at every analysis point k,    *)
(* the shaft power demanded of the lane is throttle[k] x (engine rating +  *)
(* propulsor_active[k] x motor rating), and where propulsor_active[k] = 0  *)
(* the power required of the engine is at most throttle[k] x engine        *)
(* rating.                                                                 *)
(***************************************************************************)
C19_PerPointDemand ==
    (pc = "done" /\ 1 \in HybridLanes) =>
        \A k \in Nodes :
            /\ LaneDemand(1, k) =
                   RMul(input.throttle[k],
                        RAdd(EngineRating(1),
                             RMul(input.propulsor_active[k], MotorRating(1))))
            /\ input.propulsor_active[k] = Zero =>
                   RLeq(EngineRequired(1, k), RMul(input.throttle[k], EngineRating(1)))

\* The sizing signals under the inputs X: the total weight of the propulsion
\* system and the rated power received by the thrust chain of lane j.
SystemWeight(X) == Val(graph, X, P("top", 0, "", "propulsion_system_weight"), 1)
ForwardedRating(X, j) == ValInput(graph, X, P("thrust", j, "", RATED_POWER_INPUT), 1)

\* The rated power of the sources of lane j.
InstalledRating(j) ==
    RAdd(IF IsNone(SpecOfLane(j).engine) THEN Zero ELSE EngineRating(j),
         IF IsNone(SpecOfLane(j).motor) THEN Zero ELSE MotorRating(j))

(***************************************************************************)
(* C20: in an assembled architecture, the total propulsion-system weight   *)
(* and the rated power every lane forwards to its thrust chain are the     *)
(* same for the given throttle and propulsor_active vectors as for full    *)
(* throttle with all propulsors active; the forwarded rated power is the   *)
(* rating of the lane's sources, engine rating + motor rating on a         *)
(* parallel-hybrid lane.                                                   *)
(***************************************************************************)
C20_SizingUnaffected ==
    pc = "done" =>
        /\ SystemWeight(input) = SystemWeight(DefaultInput)
        /\ \A j \in Lanes :
              /\ ForwardedRating(input, j) = ForwardedRating(DefaultInput, j)
              /\ ForwardedRating(input, j) = InstalledRating(j)

\* A parallel-hybrid second lane with the flag at 0 and half throttle: the
\* thrust chain is still sized by engine rating + motor rating, while the
\* combined rating that sets the shaft power has dropped to the engine's.
C20_Witness ==
    /\ pc = "done"
    /\ 1 \in HybridLanes
    /\ input.propulsor_active = AllZero
    /\ input.throttle[1] = <<1, 2>>
    /\ ForwardedRating(input, 1) = RAdd(EngineRating(1), MotorRating(1))
    /\ CombinedRating(1, 1) = EngineRating(1)
    /\ SystemWeight(input) = SystemWeight(DefaultInput)
    /\ RLess(Zero, SystemWeight(input))

\* The electrical group of the assembled graph holds an engine chain.
ElecHasEngineChain == InGraph("elec", 0, "eng")

(***************************************************************************)
(* C21: in an assembled architecture the number of balance components is   *)
(* twice the number of parallel-hybrid lanes, plus one when the electrical *)
(* group holds a DC engine chain; the two balances of a hybrid lane lie in *)
(* that lane and the chain's balance in the electrical group.              *)
(***************************************************************************)
C21_BalanceCount ==
    pc = "done" =>
        /\ Cardinality(AllBalances) =
               2 * Cardinality(HybridLanes) + (IF ElecHasEngineChain THEN 1 ELSE 0)
        /\ \A j \in Lanes :
              Cardinality({b \in Balances("lane") : b.i = j}) =
                  IF j \in HybridLanes THEN 2 ELSE 0
        /\ Cardinality(Balances("elec")) = IF ElecHasEngineChain THEN 1 ELSE 0
        /\ ElecHasEngineChain <=>
               (top.electric_power_gen_needed /\ ~IsNone(arch.electric.engines_dc))

\* Two parallel-hybrid lanes with inverters on a series-hybrid electrical
\* group: five balances.
C21_Witness ==
    /\ pc = "done"
    /\ Cardinality(HybridLanes) = 2
    /\ SpecOfLane(0).inverter # None
    /\ ElecHasEngineChain
    /\ InGraph("elec", 0, "split")
    /\ InGraph("elec", 0, "bat")
    /\ Cardinality(AllBalances) = 5

\* The connections into the electrical-load sum of the mech group that come
\* from lane j, and the sources of those connections.
LoadSumName == SumName(ELECTRIC_POWER_OUTPUT)
LoadContributions(j) ==
    {c \in graph.conns :
        /\ c[2].g = "mech" /\ c[2].c = LoadSumName
        /\ c[1].g = "lane" /\ c[1].i = j}
MotorLanes == {j \in Lanes : ~IsNone(SpecOfLane(j).motor)}
\* The rating input the motor of lane j is sized by.
MotorRatingPass(j) ==
    IF IsHybridLane(SpecOfLane(j)) THEN P("lane", j, "", Pass("motor_rating"))
    ELSE P("lane", j, "", Pass("rating"))

(***************************************************************************)
(* C22: in an assembled architecture the electrical-load sum of the mech   *)
(* group has exactly one contribution from every lane with a motor and     *)
(* none from any other lane: the inverter's input power where the lane has *)
(* an inverter, whose output side is then driven by the motor's load and   *)
(* whose rating by the motor's rating, and the motor's load otherwise.     *)
(***************************************************************************)
C22_LoadContributions ==
    pc = "done" =>
        /\ \A j \in Lanes :
              {c[1] : c \in LoadContributions(j)} =
                  IF j \notin MotorLanes THEN {}
                  ELSE IF ~IsNone(SpecOfLane(j).inverter)
                       THEN {P("lane", j, "inv", "elec_power_in")}
                       ELSE {P("lane", j, "mot", "elec_load")}
        /\ \A j \in Lanes : Cardinality(LoadContributions(j)) = IF j \in MotorLanes THEN 1 ELSE 0
        /\ graph.subs[Comp("mech", 0, LoadSumName)].opt.nin = Cardinality(MotorLanes)
        /\ \A j \in MotorLanes :
              IF ~IsNone(SpecOfLane(j).inverter)
              THEN /\ Drivers(graph, P("lane", j, "inv", "elec_power_out")) =
                          {P("lane", j, "mot", "elec_load")}
                   /\ Drivers(graph, P("lane", j, "inv", "elec_power_rating")) =
                          {MotorRatingPass(j)}
              ELSE ~InGraph("lane", j, "inv")

\* A parallel-hybrid lane with an inverter beside an engine-only lane: the
\* one contribution is the input power of the inverter of the first lane.
C22_Witness ==
    /\ pc = "done"
    /\ NLanes = 2
    /\ SpecOfLane(0) = HybridInverter
    /\ SpecOfLane(1) = EngineOnly
    /\ {c[1] : c \in LoadContributions(0)} = {P("lane", 0, "inv", "elec_power_in")}
    /\ LoadContributions(1) = {}
    /\ Drivers(graph, P("lane", 0, "inv", "elec_power_out")) = {P("lane", 0, "mot", "elec_load")}

\* The connections the mech builder makes from lane j into thrust group j.
ThrustFeeds(j) ==
    {c \in graph.conns : c[2].g = "thrust" /\ c[2].i = j /\ c[1].g = "lane"}

(***************************************************************************)
(* C23: in an assembled architecture, for every lane, with or without a    *)
(* gearbox, every connection from the mechanical lane into the thrust      *)
(* group (shaft power, shaft speed, rated power) targets an input that the *)
(* thrust group has.                                                       *)
(***************************************************************************)
C23_ThrustPortsExist ==
    pc = "done" =>
        \A j \in Lanes : \A c \in ThrustFeeds(j) : ExistsIn(graph, c[2])

\* The input a connection ends in, and the connections that end in the same
\* input as c, whether named by the component's path or by a promoted name.
TargetOf(c) == ResolveIn(graph, c[2])
SameTarget(c) == {d \in graph.conns : TargetOf(d) = TargetOf(c)}

(***************************************************************************)
(* C24: in an assembled architecture no input is the target of two         *)
(* connections.                                                            *)
(***************************************************************************)
C24_SingleDriver ==
    pc = "done" => \A c \in graph.conns : SameTarget(c) = {c}

\* A second lane with motor and inverter behind a gearbox, on a series-hybrid
\* electrical group: the motor's throttle, the propeller's shaft power and
\* the battery's load each have their one driver.
C24_Witness ==
    /\ pc = "done"
    /\ NLanes = 2
    /\ SpecOfLane(1) = MotorInverter
    /\ ~IsNone(arch.thrust.gearboxes)
    /\ InGraph("elec", 0, "split")
    /\ Drivers(graph, P("lane", 1, "mot", "throttle")) =
           {P("lane", 1, "failedmotor", "motor2throttle")}
    /\ Drivers(graph, P("thrust", 1, "prop", "shaft_power_in")) =
           {P("thrust", 1, "gearbox", "shaft_power_out")}
    /\ Cardinality(Drivers(graph, P("elec", 0, "bat", "elec_load"))) = 1

(***************************************************************************)
(* A specification for the thrust groups: propellers of two nominal RPMs,  *)
(* no gearbox list or a gearbox list of one entry less, as many or one     *)
(* more than the propellers, each entry a gearbox or None; engines or      *)
(* motors on every lane.                                                   *)
(***************************************************************************)
OtherRpm == <<3, 1>>

GearboxLists(n) ==
    {None} \cup UNION {{List(f) : f \in [1..m -> {None, Gearbox}]} : m \in (n - 1)..(n + 1)}

ArchsThrust ==
    UNION {{PropSysArch([propellers |-> pr, gearboxes |-> gb], MechAll(sh), PureBattery(TRUE)) :
               pr \in [1..n -> {Propeller(DefaultRpm), Propeller(OtherRpm)}],
               gb \in GearboxLists(n), sh \in {EngineOnly, MotorOnly}} : n \in 1..MaxLanes}

InitThrust == InitWith(ArchsThrust, {DefaultInput})

SpecThrust == InitThrust /\ [][Next]_vars

\* The thrust groups have been created.
ThrustBuilt == pc \notin {"start", "thrust", "error"} \/ (pc = "error" /\ InGraph("thrust", 0, ""))
\* The gearbox spec of lane j: None where no list was given.
GearboxOf(j) == IF IsNone(arch.thrust.gearboxes) THEN None ELSE arch.thrust.gearboxes.items[j + 1]
LaneShaftIn(j) == P("thrust", j, "", Pass(SHAFT_POWER_INPUT))
\* The sources summed into the weight output of thrust group j.
ThrustWeightSources(j) ==
    {c[1] : c \in {d \in graph.conns :
                      d[2].g = "thrust" /\ d[2].i = j /\ d[2].c = SumName(WEIGHT_OUTPUT)}}

(***************************************************************************)
(* C25: once the thrust groups are created, in every thrust group the      *)
(* propeller's shaft-power input has exactly one driver: with a gearbox    *)
(* the gearbox's shaft-power output, the gearbox's input being driven by   *)
(* the group's shaft-power input; without a gearbox the group's            *)
(* shaft-power input.  The group's weight output sums the propeller's      *)
(* weight and, with a gearbox, the gearbox's weight.                       *)
(***************************************************************************)
C25_GearboxInterposed ==
    ThrustBuilt =>
        \A j \in Lanes :
            IF ~IsNone(GearboxOf(j))
            THEN /\ Drivers(graph, P("thrust", j, "prop", "shaft_power_in")) =
                        {P("thrust", j, "gearbox", "shaft_power_out")}
                 /\ Drivers(graph, P("thrust", j, "gearbox", "shaft_power_in")) =
                        {LaneShaftIn(j)}
                 /\ ThrustWeightSources(j) =
                        {P("thrust", j, "prop", "component_weight"),
                         P("thrust", j, "gearbox", "component_weight")}
                 /\ graph.subs[Comp("thrust", j, SumName(WEIGHT_OUTPUT))].opt.nin = 2
            ELSE /\ Drivers(graph, P("thrust", j, "prop", "shaft_power_in")) = {LaneShaftIn(j)}
                 /\ ~InGraph("thrust", j, "gearbox")
                 /\ ThrustWeightSources(j) = {P("thrust", j, "prop", "component_weight")}
                 /\ graph.subs[Comp("thrust", j, SumName(WEIGHT_OUTPUT))].opt.nin = 1

\* Two lanes, the first with a gearbox and the second, in the same list,
\* without one.
C25_Witness ==
    /\ pc = "done"
    /\ NLanes = 2
    /\ GearboxOf(0) = Gearbox
    /\ GearboxOf(1) = None
    /\ Drivers(graph, P("thrust", 0, "prop", "shaft_power_in")) =
           {P("thrust", 0, "gearbox", "shaft_power_out")}
    /\ Drivers(graph, P("thrust", 1, "prop", "shaft_power_in")) = {LaneShaftIn(1)}
    /\ Cardinality(ThrustWeightSources(0)) = 2

\* The rotational speed the propeller of lane j runs at, at point k.
PropellerRpm(j, k) == ValInput(graph, input, P("thrust", j, "prop", "rpm"), k)

(***************************************************************************)
(* C26: in an assembled architecture whose rotational-speed input is left  *)
(* unset, the propeller of every lane runs, at every analysis point, at    *)
(* the default_rpm of that lane's propeller spec.                          *)
(***************************************************************************)
C26_OwnNominalRpm ==
    pc = "done" =>
        \A j \in Lanes : \A k \in Nodes :
            PropellerRpm(j, k) = arch.thrust.propellers[j + 1].default_rpm

(***************************************************************************)
(* A specification for the per-lane fields of the mechanical spec: every   *)
(* lane shape given as single elements, the same with any one field or all *)
(* fields written out as a list, and lists that differ from lane to lane.  *)
(***************************************************************************)
EngineBig == [EngineOnly EXCEPT !.engine = Engine(<<5, 1>>)]
BuildableShapes == {EngineOnly, MotorOnly, MotorInverter, Hybrid, HybridInverter}

\* The field x of a mechanical spec written out as a list for n lanes.
Repeated(x, n) == IF IsList(x) THEN x ELSE List([j \in 1..n |-> x])
ListedAll(m, n) == [fld \in DOMAIN m |-> Repeated(m[fld], n)]
ListedOne(m, n, fld) == [m EXCEPT ![fld] = Repeated(m[fld], n)]

\* One engine, bus and splitter for every lane, a motor on the last lane only.
MechMixed(n) ==
    [engines |-> Engine(EngRating),
     motors |-> List([j \in 1..n |-> IF j = n THEN Motor(MotRating) ELSE None]),
     inverters |-> None, mech_buses |-> MechBus, mech_splitters |-> MechSplitter(MechDoH)]

MechSpecs(n) ==
    LET singles == {MechAll(sh) : sh \in BuildableShapes}
    IN  singles
        \cup {MechMixed(n)}
        \cup {ListedAll(m, n) : m \in singles}
        \cup {ListedOne(m, n, fld) : m \in singles, fld \in {"engines", "motors", "inverters"}}
        \cup {MechOf(f) : f \in [1..n -> BuildableShapes \cup {EngineBig}]}

ArchsBroadcast ==
    UNION {{PropSysArch(ThrustOf(n, FALSE), m, PureBattery(TRUE)) : m \in MechSpecs(n)} :
           n \in 1..MaxLanes}

InitBroadcast == InitWith(ArchsBroadcast, {DefaultInput})

SpecBroadcast == InitBroadcast /\ [][Next]_vars

\* The loop of create_mech_group over the lanes from lane i on, for the
\* mechanical spec m, started from the graph G and the lists M.
RECURSIVE MechLoopFrom(_, _, _, _)
MechLoopFrom(G, M, m, i) ==
    IF i >= Len(top.thrust_groups) THEN [G |-> G, M |-> M, err |-> NoErr]
    ELSE LET S == MechLane(G, M, LaneSpec(m, Len(top.thrust_groups), i),
                           top.thrust_groups[i + 1], i, NumNodes)
         IN  IF S.err # NoErr THEN [G |-> S.G, M |-> S.M, err |-> S.err]
             ELSE MechLoopFrom(S.G, S.M, m, i + 1)

\* The entry of the field x for lane j, as the caller wrote it.
FieldEntry(x, j) == IF IsList(x) THEN x.items[j + 1] ELSE x
\* The rating the engine of lane j was instantiated with.
BuiltEngineRating(j) ==
    LET vals == graph.subs[Comp("lane", j, "eng_in_collect")].opt.vals
    IN  IF "rating" \in DOMAIN vals THEN vals["rating"] ELSE vals["eng_rating"]

(***************************************************************************)
(* C27: when the loop over the lanes starts, it builds the same graph, the *)
(* same lists and the same outcome for the mechanical spec as given as for *)
(* the spec with any one of its five fields, or all of them, replaced by a *)
(* list that repeats the element once per lane.  In an assembled           *)
(* architecture lane i holds the engine, motor and inverter of position i  *)
(* of the lists, the engine with the rating of that entry, and no element  *)
(* whose entry is None; bus and splitter are present on the lanes that     *)
(* have engine and motor.                                                  *)
(***************************************************************************)
C27_BroadcastOrList ==
    /\ (pc = "mech_loop" /\ lane = 0) =>
          LET built == MechLoopFrom(graph, mech, arch.mech, 0)
          IN  /\ MechLoopFrom(graph, mech, ListedAll(arch.mech, NLanes), 0) = built
              /\ \A fld \in DOMAIN arch.mech :
                    MechLoopFrom(graph, mech, ListedOne(arch.mech, NLanes, fld), 0) = built
    /\ pc = "done" =>
          \A j \in Lanes :
              /\ InGraph("lane", j, "eng") <=> ~IsNone(FieldEntry(arch.mech.engines, j))
              /\ InGraph("lane", j, "mot") <=> ~IsNone(FieldEntry(arch.mech.motors, j))
              /\ InGraph("lane", j, "inv") <=> ~IsNone(FieldEntry(arch.mech.inverters, j))
              /\ InGraph("lane", j, "bus") => ~IsNone(FieldEntry(arch.mech.mech_buses, j))
              /\ InGraph("lane", j, "split") => ~IsNone(FieldEntry(arch.mech.mech_splitters, j))
              /\ (InGraph("lane", j, "eng") /\ InGraph("lane", j, "mot")) =>
                     (InGraph("lane", j, "bus") /\ InGraph("lane", j, "split"))
              /\ InGraph("lane", j, "eng") =>
                     BuiltEngineRating(j) = FieldEntry(arch.mech.engines, j).power_rating

\* One engine given for both lanes and a motor list whose first entry is
\* None: an engine on each lane, the motor with bus and splitter on the
\* second lane only.
C27_Witness ==
    /\ pc = "done"
    /\ NLanes = 2
    /\ arch.mech = MechMixed(2)
    /\ InGraph("lane", 0, "eng") /\ InGraph("lane", 1, "eng")
    /\ ~InGraph("lane", 0, "mot") /\ InGraph("lane", 1, "mot")
    /\ ~InGraph("lane", 0, "bus") /\ InGraph("lane", 1, "bus")
    /\ BuiltEngineRating(1) = EngRating

\* The weight signals of the instantiated elements: the component_weight
\* output of every element that has one, and the weight of the battery.
WeightSignals ==
    {P(id.g, id.i, id.c, "component_weight") :
        id \in {e \in DOMAIN graph.subs : "component_weight" \in graph.subs[e].outs}}
    \cup (IF InGraph("elec", 0, "bat") THEN {P("elec", 0, "bat_in_collect", Pass("weight"))}
          ELSE {})
\* The fuel flow of every instantiated engine.
FuelSignals ==
    {P(id.g, id.i, id.c, "fuel_flow") :
        id \in {e \in DOMAIN graph.subs : graph.subs[e].kind = "SimpleTurboshaft"}}

\* The connections that carry the signal o into a sum of the given output
\* in a group, and the connections that carry that sum into the total.
IntoGroupSum(o, output) ==
    {c \in graph.conns :
        /\ c[2].c = SumName(output) /\ c[2].g # "top"
        /\ ResolveOut(graph, c[1]) = o}
IntoTotal(c, output, total) ==
    {d \in graph.conns :
        /\ d[2].g = "top" /\ d[2].c = SumName(total)
        /\ ResolveOut(graph, d[1]) = P(c[2].g, c[2].i, SumName(output), output)}
\* The signal o reaches the total over exactly one chain of connections.
CountedOnce(o, output, total) ==
    /\ Cardinality(IntoGroupSum(o, output)) = 1
    /\ \A c \in IntoGroupSum(o, output) : Cardinality(IntoTotal(c, output, total)) = 1

GearboxMismatch ==
    IsList(arch.thrust.gearboxes) /\ Len(arch.thrust.gearboxes.items) # NLanes
ThrustSubsystems == {id \in DOMAIN graph.subs : id.g = "thrust"}

(***************************************************************************)
(* C29: once create_thrust_groups has run, a gearbox list whose length is  *)
(* not the number of propellers has ended the assembly with the            *)
(* RuntimeError about the number of props and gearboxes and no thrust      *)
(* group in the graph, and that error has no other cause; without a        *)
(* gearbox list every lane has its propeller and no gearbox.               *)
(***************************************************************************)
C29_GearboxListLength ==
    pc \notin {"start", "thrust"} =>
        /\ GearboxMismatch =>
              /\ pc = "error"
              /\ err = Exception("RuntimeError", "Nr of props not the same as gearboxes")
              /\ ThrustSubsystems = {}
              /\ top.thrust_groups = <<>>
        /\ err.msg = "Nr of props not the same as gearboxes" => GearboxMismatch
        /\ IsNone(arch.thrust.gearboxes) =>
              \A j \in Lanes : InGraph("thrust", j, "prop") /\ ~InGraph("thrust", j, "gearbox")

\* Two propellers with three gearboxes: refused with nothing built.
C29_Witness ==
    /\ pc = "error"
    /\ NLanes = 2
    /\ IsList(arch.thrust.gearboxes)
    /\ Len(arch.thrust.gearboxes.items) = 3
    /\ err.kind = "RuntimeError"
    /\ ThrustSubsystems = {}

\* The conditions of the three "if" blocks of the loop body (lines 173, 350
\* and 389) that hold for the lane spec sp.
BlocksEntered(sp) ==
    {b \in {"hybrid", "engine", "motor"} :
        \/ b = "hybrid" /\ ~IsNone(sp.engine) /\ ~IsNone(sp.motor)
        \/ b = "engine" /\ ~IsNone(sp.engine) /\ IsNone(sp.motor)
        \/ b = "motor" /\ ~IsNone(sp.motor) /\ IsNone(sp.engine)}
\* The lane passes the check of line 163 and the check of line 174.
PassesLaneChecks(sp) ==
    /\ ~(IsNone(sp.engine) /\ IsNone(sp.motor))
    /\ (~IsNone(sp.engine) /\ ~IsNone(sp.motor)) =>
           (~IsNone(sp.mech_bus) /\ ~IsNone(sp.mech_splitter))
\* The lane about to be built, and its state after the three blocks.
NextLaneSpec == LaneSpec(arch.mech, Len(top.thrust_groups), lane)
AfterSources ==
    LaneSources(LaneState(AddSubsystem(graph, Comp("lane", lane, ""), Group), mech),
                NextLaneSpec, lane, NumNodes)
\* The connections of the global throttle into the lanes.
ThrottleFeeds ==
    {c \in graph.conns : c[1] = P("mech", 0, "", Pass(THROTTLE_INPUT))}

(***************************************************************************)
(* C30: for every lane about to be built that has an engine or a motor     *)
(* and, having both, a bus and a splitter, exactly one of the three blocks *)
(* is entered and leaves the shaft-power source, the shaft-speed source,   *)
(* the rated-power source and the throttle target set, without error.  The *)
(* error 'No shaft power generated' is never raised, and every connection  *)
(* of the global throttle into a lane targets an input of that lane.       *)
(***************************************************************************)
C30_OneBranchRuns ==
    /\ (pc = "mech_loop" /\ lane < Len(top.thrust_groups) /\ PassesLaneChecks(NextLaneSpec)) =>
          /\ Cardinality(BlocksEntered(NextLaneSpec)) = 1
          /\ AfterSources.err = NoErr
          /\ ~IsNone(AfterSources.shaft_power_out_param)
          /\ ~IsNone(AfterSources.shaft_speed_out_param)
          /\ ~IsNone(AfterSources.rated_power_out_param)
          /\ ~IsNone(AfterSources.throttle_param)
          /\ ExistsOut(AfterSources.G, AfterSources.shaft_power_out_param)
          /\ ExistsIn(AfterSources.G, AfterSources.throttle_param)
    /\ err.msg # "No shaft power generated"
    /\ \A c \in ThrottleFeeds : ~IsNone(c[2]) /\ ExistsIn(graph, c[2])
    /\ pc = "done" => \A j \in Lanes : Cardinality({c \in ThrottleFeeds : c[2].i = j}) = 1

\* The second lane of two, a motor with an inverter, about to be built after
\* an engine-only first lane: the motor's block alone is entered and the
\* throttle target is the failedmotor component.
C30_Witness ==
    /\ pc = "mech_loop"
    /\ lane = 1
    /\ NLanes = 2
    /\ NextLaneSpec = MotorInverter
    /\ BlocksEntered(NextLaneSpec) = {"motor"}
    /\ AfterSources.throttle_param = P("lane", 1, "failedmotor", "throttle_vec")
    /\ AfterSources.shaft_power_out_param = P("lane", 1, "mot", "shaft_power_out")
    /\ Cardinality(ThrottleFeeds) = 1

====
